---- MODULE Spec2Model ----
(***************************************************************************)
(* LAN-CHAT: the framed connection (SocketWrapper), the connection worker  *)
(* (ClientHandler), the peer registry (Room), the listener (Server), the   *)
(* connector (Client), the receive thread of a client (NetworkManager)     *)
(* and the input loops of main.cpp.                                        *)
(*                                                                         *)
(* Several specifications share this module and its variables.             *)
(*   Spec        the registry and its workers: one receive thread per      *)
(*               worker, the main thread calling the registry, the peers   *)
(*               writing bytes to their connections.                       *)
(*   FrameSpec   one connected pair at the granularity of single ::send    *)
(*               and ::recv calls, with partial writes and partial reads.  *)
(*   SendSpec    threads sending on one connection.                        *)
(*   ConnSpec    SocketWrapper objects handing a handle to one another.    *)
(*   ListenSpec  Server: the accept thread and the thread that starts and  *)
(*               stops it.                                                 *)
(*   ConnectSpec Client::connect_to walking the resolved addresses.        *)
(*   NmSpec      NetworkManager: start, stop and the receive thread.       *)
(*   ChatSpec    the input loops of run_server and run_client, and the     *)
(*               relay between them.                                       *)
(***************************************************************************)
EXTENDS Integers, Sequences, FiniteSets, TLC

\* ------------------------------------------------------------------ bounds

\* Handshake replies of the new-client callback that fail in one run.
MaxReplyFaults == 1

\* Registrations (add_client calls) in one run.
MaxClients == 2

\* What the peers do in one run, all connections together: writes, closes
\* and resets.
MaxPeerWrites == 2

\* Calls the main thread makes on the registry in one run.
MaxApiCalls == 1

\* Frames sent, and receive_message calls made, on the connected pair.
MaxFrames == 2

\* Partial transfers one send_all or recv_all call may be split into before
\* the operating system moves all that is left.
MaxSplits == 2

\* The threads that call ClientHandler::send on one worker, the calls they
\* make in all, and the ::send calls that may report SOCKET_ERROR.
MaxSenders == 2
MaxSendCalls == 2
MaxSendFaults == 1

\* The SocketWrapper objects and the operating system's handles of the
\* handoff, and the moves of handles made.
MaxObjs == 3
MaxHandles == 2
MaxMoves == 2

\* The listener: the connections that arrive on the listening socket, the
\* ::accept calls that fail while the socket is open, and the calls of
\* start_accept_loop() and stop() the controlling thread makes.
MaxConns == 2
MaxAcceptFaults == 1
MaxCtlCalls == 4

\* The connector: the candidate addresses getaddrinfo returns.
MaxCands == 3

\* The network manager: the frames its peer sends and the stop() calls
\* made on it.
MaxNmFrames == 2
MaxNmStops == 2

\* The chat path: the lines each input loop reads.
MaxChatLines == 2

\* ------------------------------------------------------------------ bytes
\* A byte string (std::string, the socket's stream) is kept run-length
\* encoded: a sequence of [b |-> byte, n |-> count > 0] in which neighbours
\* differ in b, so that equal strings are equal values and a payload of
\* 64 MiB is one run.

RECURSIVE SLen(_)
SLen(s) == IF s = <<>> THEN 0 ELSE s[1].n + SLen(Tail(s))

SCat(s, t) ==
  IF s = <<>> THEN t
  ELSE IF t = <<>> THEN s
  ELSE IF s[Len(s)].b = t[1].b
       THEN SubSeq(s, 1, Len(s) - 1)
              \o <<[b |-> t[1].b, n |-> s[Len(s)].n + t[1].n]>>
              \o Tail(t)
       ELSE s \o t

RECURSIVE STake(_, _)
STake(s, k) ==
  IF k = 0 \/ s = <<>> THEN <<>>
  ELSE IF s[1].n <= k THEN SCat(<<s[1]>>, STake(Tail(s), k - s[1].n))
  ELSE <<[b |-> s[1].b, n |-> k]>>

RECURSIVE SDrop(_, _)
SDrop(s, k) ==
  IF k = 0 \/ s = <<>> THEN s
  ELSE IF s[1].n <= k THEN SDrop(Tail(s), k - s[1].n)
  ELSE <<[b |-> s[1].b, n |-> s[1].n - k]>> \o Tail(s)

RECURSIVE SAt(_, _)
SAt(s, i) == IF i <= s[1].n THEN s[1].b ELSE SAt(Tail(s), i - s[1].n)

Run(b, n) == IF n = 0 THEN <<>> ELSE <<[b |-> b, n |-> n]>>

RECURSIVE Bytes(_)
Bytes(q) == IF q = <<>> THEN <<>> ELSE SCat(Run(q[1], 1), Bytes(Tail(q)))

\* --------------------------------------------------------------- framing

\* sizeof(net_len): the length prefix is a uint32_t.
HeaderSize == 4

\* The receive cap, constexpr uint32_t MAX_MSG.
MAX_MSG == 64 * 1024 * 1024

\* The prefix written without htonl, in the byte order of the x86 host.
HostOrder(len) ==
  Bytes(<< len % 256, (len \div 256) % 256, (len \div 65536) % 256,
           (len \div 16777216) % 256 >>)

\* htonl followed by the byte view of net_len: big-endian, 4 bytes.
htonl(len) ==
  Bytes(<< (len \div 16777216) % 256, (len \div 65536) % 256,
           (len \div 256) % 256, len % 256 >>)

\* ntohl of the 4 bytes read into net_len.
ntohl(h) ==
  SAt(h, 1) * 16777216 + SAt(h, 2) * 65536 + SAt(h, 3) * 256 + SAt(h, 4)

\* The bytes send_message puts on the stream for one message: the prefix,
\* then the body when len > 0.
FrameOf(message) ==
  LET len == SLen(message)
  IN  SCat(htonl(len), IF len > 0 THEN message ELSE <<>>)

\* The guard with the cap itself refused.
TooLargeAtCap(len) == len >= MAX_MSG

\* len > MAX_MSG
TooLarge(len) == len > MAX_MSG


\* ------------------------------------------------------- registry: state

\* The identifiers add_client can hand out within the bound; a worker, its
\* receive thread and its connection are named by the worker's id_.
Workers == 1 .. MaxClients

\* The thread of run_server, which calls the registry from outside.
MainThread == 0

Threads == Workers \cup {MainThread}

\* Display names given to add_client: "A" and "B".
Names == { Bytes(<<65>>), Bytes(<<66>>) }

\* The label of the server's own messages, "S", and a line of text, "hi".
ServerLabel == Bytes(<<83>>)
Hi == Bytes(<<104, 105>>)

\* A declared length of 100 MiB.
HundredMiB == 100 * 1024 * 1024

VARIABLES
  next_id_,    \* Room::next_id_
  clients_,    \* Room::clients_: the ids that have an entry
  mutex_,      \* Room::mutex_: the set holding the thread that owns it
  name_,       \* ClientHandler::name_, by id
  running_,    \* ClientHandler::running_, by id
  socket_,     \* ClientHandler::socket_.sock_, by id: "open" or "invalid"
  obj,         \* the ClientHandler object: "none", "live", "dtor", "freed"
  pc,          \* where each thread is
  loc,         \* each thread's locals
  inbound,     \* by id, the bytes the peer wrote and the worker has not read
  outbox,      \* by id, the payloads written to the peer
  crashed,     \* std::terminate was called
  released,    \* by id, the ::closesocket calls made on the connection's handle
  rmLog,       \* the remove_client calls that got mutex_: << id, found >>
  issued,      \* the ids add_client returned, in order
  discCalls,   \* by id, the invocations of on_disconnect_
  stopCalls,   \* by id, the calls of stop()
  cause,       \* by id, why the receive loop ended
  apiCalls,    \* calls the main thread has made
  peerWrites,  \* what the peers have done: writes, closes, resets
  tx,          \* connected pair: the sending end
  wire,        \* connected pair: bytes sent and not yet received
  rx,          \* connected pair: the receiving end
  sentLog,     \* connected pair: the messages given to send_message
  rcvd,        \* connected pair: what the receive_message calls returned
  send_mutex_, \* senders: ClientHandler::send_mutex_, the set holding its owner
  sender,      \* senders: each calling thread's place in ClientHandler::send
  sendWire,    \* senders: the bytes written to the connection, with their call
  sendLog,     \* senders: how each call of send ended
  sendSock,    \* senders: the worker's socket_.sock_, "open" or "invalid"
  sendFaults,  \* senders: the ::send calls that reported SOCKET_ERROR
  sock_,       \* handoff: SocketWrapper::sock_ of each object
  life,        \* handoff: each object is "none", "live" or "dead"
  handle,      \* handoff: the operating system's record of each handle
  connLog,     \* handoff: the latest send_message / receive_message call
  connMoves,   \* handoff: the moves that took a handle from one object to another
  srv_running_,   \* listener: Server::running_
  listen_sock_,   \* listener: Server::listen_sock_, "open" or "invalid"
  accept_thread_, \* listener: Server::accept_thread_, "empty" or "joinable"
  acceptPc,       \* listener: where the accept thread is
  listenOs,       \* listener: the operating system's listening socket
  ctlPc,          \* listener: where the controlling thread is
  srvLog,         \* listener: what has happened so far
  cliPc,          \* connector: where connect_to is
  cands,          \* connector: the list getaddrinfo returned, as what each
                  \* candidate will do: "nosock", "refused" or "ok"
  ptr,            \* connector: the position of ptr in the list
  sock,           \* connector: the local sock, a handle or INVALID_SOCKET
  cliLog,         \* connector: sockets opened and closed, connects attempted
  nm_running_,    \* network manager: NetworkManager::running_
  nmSocket,       \* network manager: socket_.sock_, "open" or "invalid"
  nm_recv_thread_, \* network manager: recv_thread_, "empty" or "joinable"
  nmPc,           \* network manager: where the receive thread is
  nmCtl,          \* network manager: where the thread calling stop() is
  nmPeer,         \* network manager: what the peer has sent and not been read
  nmLog,          \* network manager: what has happened so far
  chat,           \* chat path: the two input loops and the client's frames
                  \* the server has not read yet
  chatSent        \* chat path: the payloads given to send_message, in order

regvars ==
  << next_id_, clients_, mutex_, name_, running_, socket_, obj, pc, loc, inbound,
     outbox, crashed, released, rmLog, issued, discCalls, stopCalls, cause, apiCalls,
     peerWrites >>

framevars == << tx, wire, rx, sentLog, rcvd >>

sendvars == << send_mutex_, sender, sendWire, sendLog, sendSock, sendFaults >>

connvars == << sock_, life, handle, connLog, connMoves >>

lsnvars ==
  << srv_running_, listen_sock_, accept_thread_, acceptPc, listenOs, ctlPc, srvLog >>

\* The components outside the registry and the framed connection.
clivars == << cliPc, cands, ptr, sock, cliLog >>

nmvars == << nm_running_, nmSocket, nm_recv_thread_, nmPc, nmCtl, nmPeer, nmLog >>

chatvars == << chat, chatSent >>

extvars == << lsnvars, clivars, nmvars, chatvars >>

vars == << regvars, framevars, sendvars, connvars, extvars >>

\* What the registry, the connected pair, the senders and the handoff each
\* leave alone.
notreg == << framevars, sendvars, connvars, extvars >>
notframe == << regvars, sendvars, connvars, extvars >>
notsend == << regvars, framevars, connvars, extvars >>
notconn == << regvars, framevars, sendvars, extvars >>
core == << regvars, framevars, sendvars, connvars >>
notlsn == << core, clivars, nmvars, chatvars >>
notcli == << core, lsnvars, nmvars, chatvars >>
notnm == << core, lsnvars, clivars, chatvars >>
notchat == << core, lsnvars, clivars, nmvars >>

\* A thread's locals when it is in no registry call.
NoLocals ==
  [ msg |-> <<>>, payload |-> <<>>, sender |-> 0, exclude |-> FALSE,
    todo |-> {}, snap |-> {}, sent |-> <<>>, act |-> {}, cur |-> 0,
    seen |-> {}, failed |-> {}, entry |-> {}, nid |-> 0 ]

\* The text sent as it is, without the name in front.
PayloadBare(sender_name, message) == message

\* "[" + sender_name + "]: " + message
Payload(sender_name, message) ==
  SCat(SCat(Bytes(<<91>>), sender_name), SCat(Bytes(<<93, 58, 32>>), message))

\* ClientHandler::is_active
is_active(i) == running_[i]

\* SocketWrapper::is_valid on worker i's socket
is_valid(i) == socket_[i] = "open"


\* ----------------------------------------------- registry: pure helpers

\* next_id_ left as it was.
NoIncrement(n) == n

\* uint32_t id = next_id_++ : the value next_id_ holds afterwards.
PostIncrement(n) == n + 1

\* The test of the entry without the comparison with sender_id.
EligibleWithSender(i, sender_id) == is_active(i)

\* it->first != sender_id && it->second->is_active()
BroadcastEligible(i, sender_id) == i # sender_id /\ is_active(i)

\* The entry sent to whether or not its receive loop still runs.
AllEligibleAlways(i) == TRUE

\* it->second->is_active()
BroadcastAllEligible(i) == is_active(i)

\* The map left holding the new entry alone.
EmplaceAlone(ids, id) == {id}

\* clients_.emplace(id, std::move(handler)): the keys of the map afterwards.
Emplace(ids, id) == ids \cup {id}

\* Room::client_count(): clients_.size(), read under mutex_.
client_count == Cardinality(clients_)

\* The entry taken as found whatever the map holds.
FoundAlways(id) == TRUE

\* auto it = clients_.find(id); if (it != clients_.end())
Found(id) == id \in clients_

\* on_disconnect_ also called from the catch block of the loop.
DisconnectAlsoInCatch(i) == IF cause[i] = "too_large" THEN 2 ELSE 1

\* if (on_disconnect_) on_disconnect_(id_);  after the loop: the calls made.
OnDisconnectCalls(i) == 1

\* remove_client going on without waiting for mutex_.
NoLockGuard(t) == TRUE

\* LockGuard<Mutex> lock(mutex_) at the head of remove_client, in thread t:
\* the thread goes on once no thread owns mutex_.
LockGuard(t) == mutex_ = {}

\* The disconnect callback invoked from inside the loop, which then goes
\* round again with running_ as it was.
CallbackInsideLoop(i) == [running |-> running_[i], pc |-> "loop"]

\* receive_loop after its while loop: running_.store(false), then the
\* disconnect callback as the last statement of the thread, which enters
\* Room::remove_client and has no way back into the loop.
AfterLoop(i) == [running |-> FALSE, pc |-> "rm_lock"]

\* What recv_thread_.join() can do when the joining thread is the receive
\* thread itself: Thread::join waits for its own handle for ever, std::thread
\* throws out of a destructor, which ends the process.
SelfJoinOutcomes == {"hang", "terminate"}

\* Whether a send_message on worker i's connection gets its frame out: it
\* does while the peer is there, may or may not once the peer has closed,
\* and does not after a reset.
SendOutcomes(i) ==
  IF inbound[i].fin = "open" THEN {TRUE}
  ELSE IF inbound[i].fin = "eof" THEN {TRUE, FALSE}
  ELSE {FALSE}

\* The frame put in front of what was written to the peer before.
sendInFront(i, message, ok) ==
  IF is_valid(i) /\ ok
  THEN [outbox EXCEPT ![i] = << message >> \o @]
  ELSE outbox

\* ClientHandler::send(message) on worker i: the new outbox, given whether
\* the transport takes the frame.  A failure is swallowed.
send(i, message, ok) ==
  IF is_valid(i) /\ ok
  THEN [outbox EXCEPT ![i] = Append(@, message)]
  ELSE outbox

\* The exception of a failed send leaving the loop: no entry is left to visit.
AbortOnFailure(todo, j, ok) == IF ok THEN todo \ {j} ELSE {}

\* The entries the loop of broadcast has still to visit after the send to
\* entry j: send returns normally whether or not the transport took the
\* frame (catch (...) in ClientHandler::send), and the loop goes on.
AfterSend(todo, j, ok) == todo \ {j}

\* ClientHandler::stop() on every worker of S: running_ and socket_ after it.
StopRunning(S) == [j \in Workers |-> IF j \in S THEN FALSE ELSE running_[j]]
StopSocket(S) == [j \in Workers |-> IF j \in S THEN "invalid" ELSE socket_[j]]
StopCount(S) == [j \in Workers |-> IF j \in S THEN stopCalls[j] + 1 ELSE stopCalls[j]]

\* The handle released whether or not sock_ still holds one.
CloseUnguarded(S) == [j \in Workers |-> IF j \in S THEN released[j] + 1 ELSE released[j]]

\* SocketWrapper::close() on the socket of every worker of S: ::closesocket
\* is called only if (sock_ != INVALID_SOCKET).
CloseReleases(S) ==
  [j \in Workers |-> IF j \in S /\ is_valid(j) THEN released[j] + 1 ELSE released[j]]

\* A zero-length frame handed to the caller as a message like any other.
ZeroFrameAsMessage(body) ==
  [kind |-> "msg", why |-> "none", msg |-> <<>>, rest |-> body]

\* if (len == 0) return {};  in receive_message, and what receive_loop makes
\* of it: msg.empty(), the loop ends.  body is what follows the prefix.
ZeroFrame(body) ==
  [kind |-> "empty", why |-> "zero_frame", msg |-> <<>>, rest |-> body]

\* SocketWrapper::receive_message on worker i's connection, as one read of
\* the stream: the result and the bytes left unread.  kind is "block" while
\* the bytes of the frame have not all arrived and the stream is open.
receive_message(i) ==
  LET c == inbound[i]
      have == SLen(c.buf)
      lost == IF c.fin = "err" THEN "io_error"
              ELSE IF have = 0 THEN "peer_closed" ELSE "truncated"
  IN
  IF ~is_valid(i)
  THEN [kind |-> "empty", why |-> "stop", msg |-> <<>>, rest |-> c.buf]
  ELSE IF have < HeaderSize
  THEN IF c.fin = "open"
       THEN [kind |-> "block", why |-> "none", msg |-> <<>>, rest |-> c.buf]
       ELSE [kind |-> "empty", why |-> lost, msg |-> <<>>, rest |-> <<>>]
  ELSE
    LET len == ntohl(STake(c.buf, HeaderSize))
        body == SDrop(c.buf, HeaderSize)
    IN
    IF len = 0
    THEN ZeroFrame(body)
    ELSE IF TooLarge(len)
    THEN [kind |-> "throw", why |-> "too_large", msg |-> <<>>, rest |-> body]
    ELSE IF SLen(body) >= len
    THEN [kind |-> "msg", why |-> "none", msg |-> STake(body, len),
          rest |-> SDrop(body, len)]
    ELSE IF c.fin = "open"
    THEN [kind |-> "block", why |-> "none", msg |-> <<>>, rest |-> c.buf]
    ELSE [kind |-> "empty", why |-> lost, msg |-> <<>>, rest |-> <<>>]

\* Where a thread is once its registry call has returned: the main thread
\* is idle again; a receive thread returns from on_disconnect_ and ends, or
\* from on_message_ to the head of its loop.
AfterCall(t, from) ==
  IF t = MainThread THEN "idle"
  ELSE IF from = "broadcast" THEN "loop" ELSE "done"


\* ---------------------------------------------------- registry: actions

\* The connected pair stands still while the registry runs.
FrameIdle ==
  /\ tx = [pc |-> "idle", buf |-> <<>>, splits |-> 0, closed |-> FALSE]
  /\ wire = <<>>
  /\ rx = [pc |-> "idle", want |-> 0, got |-> <<>>, len |-> 0, splits |-> 0,
           eaten |-> 0]
  /\ sentLog = <<>>
  /\ rcvd = <<>>

\* The threads calling send on one worker.
Senders == 1 .. MaxSenders

\* A sender outside ClientHandler::send.
SenderIdle == [pc |-> "idle", buf |-> <<>>, splits |-> 0, calls |-> 0]

\* No thread has called send on the worker yet.
SendIdle ==
  /\ send_mutex_ = {}
  /\ sender = [s \in Senders |-> SenderIdle]
  /\ sendWire = <<>>
  /\ sendLog = <<>>
  /\ sendSock = "open"
  /\ sendFaults = 0

\* The SocketWrapper objects and the handles accept() can return.
Objs == 1 .. MaxObjs
Handles == 1 .. MaxHandles

\* The value of sock_ that is no handle.
INVALID_SOCKET == 0

\* No send_message or receive_message call has been made.
NoConnOp == [op |-> "none", valid |-> TRUE, result |-> "none", io |-> 0]

\* A handle accept() has not returned yet.
\* link is "up", "down" once the transport has failed, and "hit" once a
\* ::send or ::recv on the handle has reported the failure.
FreeHandle == [state |-> "free", closes |-> 0, link |-> "up"]

\* No SocketWrapper has been constructed yet.
ConnIdle ==
  /\ sock_ = [o \in Objs |-> INVALID_SOCKET]
  /\ life = [o \in Objs |-> "none"]
  /\ handle = [h \in Handles |-> FreeHandle]
  /\ connLog = NoConnOp
  /\ connMoves = 0

\* Nothing has happened at the listener.
NoSrvLog ==
  [ calls |-> 0, starts |-> 0, stopsReturned |-> 0, noops |-> 0, callbacks |-> 0,
    faults |-> 0, failedNow |-> FALSE, retried |-> FALSE, cbAfterStop |-> FALSE,
    taskAtReturn |-> "none", registered |-> 0, replyFaults |-> 0 ]

\* Server after construction: socket(), bind() and listen() have succeeded,
\* running_ is false and no accept thread exists.
SrvIdle ==
  /\ srv_running_ = FALSE
  /\ listen_sock_ = "open"
  /\ accept_thread_ = "empty"
  /\ acceptPc = "none"
  /\ listenOs = [state |-> "listening", queued |-> 0, arrived |-> 0, closes |-> 0]
  /\ ctlPc = "idle"
  /\ srvLog = NoSrvLog

\* connect_to has not been called.
CliIdle ==
  /\ cliPc = "idle"
  /\ cands = <<>>
  /\ ptr = 0
  /\ sock = INVALID_SOCKET
  /\ cliLog = [opened |-> {}, closed |-> {}, attempted |-> <<>>, freed |-> FALSE]

\* NetworkManager after construction on a connected socket: start() has
\* not been called.
NmIdle ==
  /\ nm_running_ = FALSE
  /\ nmSocket = "open"
  /\ nm_recv_thread_ = "empty"
  /\ nmPc = "none"
  /\ nmCtl = "idle"
  /\ nmPeer = [frames |-> 0, sent |-> 0, fin |-> FALSE]
  /\ nmLog = [stops |-> 0, returned |-> 0, taskAtReturn |-> "none",
              sockAtReturn |-> "open", messages |-> 0, disconnects |-> 0]

\* The chat path once the handshake is over: the client's and the server's
\* input loops are at their prompts and the client is not registered yet.
ChatIdle ==
  /\ chat = [cli |-> "loop", cliReads |-> 0, srv |-> "loop", srvReads |-> 0,
             up |-> <<>>, joined |-> FALSE]
  /\ chatSent = <<>>

\* The components outside the registry and the framed connection stand
\* still.
ExtIdle == SrvIdle /\ CliIdle /\ NmIdle /\ ChatIdle

RegInit ==
  /\ next_id_ = 1
  /\ clients_ = {}
  /\ mutex_ = {}
  /\ name_ = [i \in Workers |-> <<>>]
  /\ running_ = [i \in Workers |-> FALSE]
  /\ socket_ = [i \in Workers |-> "invalid"]
  /\ obj = [i \in Workers |-> "none"]
  /\ pc = [t \in Threads |-> IF t = MainThread THEN "idle" ELSE "none"]
  /\ loc = [t \in Threads |-> NoLocals]
  /\ inbound = [i \in Workers |-> [buf |-> <<>>, fin |-> "open"]]
  /\ outbox = [i \in Workers |-> <<>>]
  /\ crashed = FALSE
  /\ released = [i \in Workers |-> 0]
  /\ rmLog = {}
  /\ issued = <<>>
  /\ discCalls = [i \in Workers |-> 0]
  /\ stopCalls = [i \in Workers |-> 0]
  /\ cause = [i \in Workers |-> "none"]
  /\ apiCalls = 0
  /\ peerWrites = 0

Init == RegInit /\ FrameIdle /\ SendIdle /\ ConnIdle /\ ExtIdle

\* Room::add_client(socket, name), called on the accept thread: the whole
\* call runs under mutex_, and the constructor starts the receive thread.
AddClient(name) ==
  /\ ~crashed
  /\ mutex_ = {}
  /\ next_id_ \in Workers
  /\ LET id == next_id_ IN
     /\ next_id_' = PostIncrement(next_id_)
     /\ clients_' = Emplace(clients_, id)
     /\ name_' = [name_ EXCEPT ![id] = name]
     /\ running_' = [running_ EXCEPT ![id] = TRUE]
     /\ socket_' = [socket_ EXCEPT ![id] = "open"]
     /\ obj' = [obj EXCEPT ![id] = "live"]
     /\ pc' = [pc EXCEPT ![id] = "loop"]
     /\ issued' = Append(issued, id)
  /\ UNCHANGED << mutex_, loc, inbound, outbox, crashed, discCalls, stopCalls,
                  cause, apiCalls, peerWrites, released, rmLog, notreg >>

\* ClientHandler::receive_loop, one turn: while (running_.load()), then
\* msg = socket_.receive_message(), the catch and the msg.empty() test.  The
\* thread stays here while receive_message blocks.
Receive(i) ==
  /\ ~crashed
  /\ pc[i] = "loop"
  /\ LET r == receive_message(i) IN
     IF ~running_[i]
     THEN /\ pc' = [pc EXCEPT ![i] = "exit"]
          /\ cause' = [cause EXCEPT ![i] = "stop"]
          /\ UNCHANGED << inbound, loc >>
     ELSE /\ r.kind # "block"
          /\ inbound' = [inbound EXCEPT ![i].buf = r.rest]
          /\ IF r.kind = "msg"
             THEN /\ pc' = [pc EXCEPT ![i] = "on_msg"]
                  /\ loc' = [loc EXCEPT ![i].msg = r.msg]
                  /\ cause' = cause
             ELSE /\ pc' = [pc EXCEPT ![i] = "exit"]
                  /\ loc' = loc
                  /\ cause' = [cause EXCEPT ![i] = r.why]
  /\ UNCHANGED << next_id_, clients_, mutex_, name_, running_, socket_, obj,
                  outbox, crashed, issued, discCalls, stopCalls, apiCalls,
                  peerWrites, released, rmLog, notreg >>

\* on_message_(id_, name_, msg): the registry's on_msg calls
\* Room::broadcast, which formats the payload and takes mutex_.
OnMessage(i) ==
  /\ ~crashed
  /\ pc[i] = "on_msg"
  /\ mutex_ = {}
  /\ mutex_' = {i}
  /\ pc' = [pc EXCEPT ![i] = "bcast"]
  /\ loc' = [loc EXCEPT ![i] =
               [ NoLocals EXCEPT !.msg = loc[i].msg,
                                 !.payload = Payload(name_[i], loc[i].msg),
                                 !.sender = i, !.exclude = TRUE,
                                 !.todo = clients_, !.snap = clients_,
                                 !.entry = {j \in clients_ : is_active(j)} ]]
  /\ UNCHANGED << next_id_, clients_, name_, running_, socket_, obj, inbound,
                  outbox, crashed, issued, discCalls, stopCalls, cause,
                  apiCalls, peerWrites, released, rmLog, notreg >>

\* One turn of the for loop of Room::broadcast or Room::broadcast_all, in
\* the thread that holds mutex_: the test of the entry and the send.
BroadcastVisit(t) ==
  /\ ~crashed
  /\ pc[t] = "bcast"
  /\ \E j \in loc[t].todo :
       LET eligible == IF loc[t].exclude
                       THEN BroadcastEligible(j, loc[t].sender)
                       ELSE BroadcastAllEligible(j)
       IN
       \E ok \in SendOutcomes(j) :
         /\ outbox' = IF eligible THEN send(j, loc[t].payload, ok) ELSE outbox
         /\ loc' = [loc EXCEPT
                      ![t].todo = IF eligible THEN AfterSend(@, j, is_valid(j) => ok)
                                  ELSE @ \ {j},
                      ![t].sent = IF eligible THEN Append(@, j) ELSE @,
                      ![t].act = IF is_active(j) THEN @ \cup {j} ELSE @,
                      ![t].seen = @ \cup {j},
                      ![t].failed = IF eligible /\ is_valid(j) /\ ~ok
                                    THEN @ \cup {j} ELSE @]
  /\ UNCHANGED << next_id_, clients_, mutex_, name_, running_, socket_, obj, pc,
                  inbound, crashed, issued, discCalls, stopCalls, cause,
                  apiCalls, peerWrites, released, rmLog, notreg >>

\* The end of Room::broadcast or Room::broadcast_all: the lock guard
\* releases mutex_ and the call returns.
BroadcastReturn(t) ==
  /\ ~crashed
  /\ pc[t] = "bcast"
  /\ loc[t].todo = {}
  /\ mutex_' = {}
  /\ pc' = [pc EXCEPT ![t] = AfterCall(t, "broadcast")]
  /\ loc' = [loc EXCEPT ![t] = NoLocals]
  /\ UNCHANGED << next_id_, clients_, name_, running_, socket_, obj, inbound,
                  outbox, crashed, issued, discCalls, stopCalls, cause,
                  apiCalls, peerWrites, released, rmLog, notreg >>

\* ClientHandler::receive_loop after the loop: running_.store(false), then
\* on_disconnect_(id_), which enters Room::remove_client(id_).
LoopExit(i) ==
  /\ ~crashed
  /\ pc[i] = "exit"
  /\ running_' = [running_ EXCEPT ![i] = AfterLoop(i).running]
  /\ discCalls' = [discCalls EXCEPT ![i] = @ + OnDisconnectCalls(i)]
  /\ pc' = [pc EXCEPT ![i] = AfterLoop(i).pc]
  /\ loc' = [loc EXCEPT ![i] = [NoLocals EXCEPT !.cur = i]]
  /\ UNCHANGED << next_id_, clients_, mutex_, name_, socket_, obj, inbound,
                  outbox, crashed, issued, stopCalls, cause, apiCalls,
                  peerWrites, released, rmLog, notreg >>

\* Room::remove_client(id) in thread t, from taking mutex_ to the erase:
\* absent, it returns; present, it calls stop() and erases the entry, which
\* runs ~ClientHandler (Destroy) in this thread with mutex_ held.
RemoveClient(t) ==
  /\ ~crashed
  /\ pc[t] = "rm_lock"
  /\ LockGuard(t)
  /\ LET id == loc[t].cur IN
     /\ rmLog' = rmLog \cup {<< id, Found(id) >>}
     /\ IF Found(id)
        THEN /\ mutex_' = {t}
             /\ running_' = StopRunning({id})
             /\ socket_' = StopSocket({id})
             /\ released' = CloseReleases({id})
             /\ stopCalls' = StopCount({id})
             /\ clients_' = clients_ \ {id}
             /\ pc' = [pc EXCEPT ![t] = "destroy"]
             /\ loc' = [loc EXCEPT ![t].todo = {id}]
        ELSE /\ pc' = [pc EXCEPT ![t] = AfterCall(t, "remove_client")]
             /\ loc' = [loc EXCEPT ![t] = NoLocals]
             /\ UNCHANGED << mutex_, running_, socket_, released, stopCalls, clients_ >>
  /\ UNCHANGED << next_id_, name_, obj, inbound, outbox, crashed, issued,
                  discCalls, cause, apiCalls, peerWrites, notreg >>

\* ~ClientHandler of one handler j the thread t is destroying (the erase of
\* remove_client, the clear of stop_all): stop(), then recv_thread_.join().
\* The join returns once j's receive thread has ended; until then t waits,
\* holding mutex_.  When t is j's own receive thread the join is a self-join.
Destroy(t) ==
  /\ ~crashed
  /\ pc[t] \in {"destroy", "join"}
  /\ \E j \in loc[t].todo, outcome \in SelfJoinOutcomes :
       /\ pc[t] = "join" => (j = loc[t].cur /\ pc[j] = "done")
       /\ running_' = StopRunning({j})
       /\ socket_' = StopSocket({j})
       /\ released' = CloseReleases({j})
       /\ stopCalls' = IF pc[t] = "destroy" THEN StopCount({j}) ELSE stopCalls
       /\ IF j = t
          THEN \* self-join
               /\ obj' = [obj EXCEPT ![j] = "dtor"]
               /\ crashed' = (outcome = "terminate")
               /\ pc' = [pc EXCEPT ![t] = "hung"]
               /\ UNCHANGED << loc, mutex_, clients_ >>
          ELSE IF pc[j] # "done"
          THEN \* the join waits
               /\ obj' = [obj EXCEPT ![j] = "dtor"]
               /\ pc' = [pc EXCEPT ![t] = "join"]
               /\ loc' = [loc EXCEPT ![t].cur = j]
               /\ UNCHANGED << crashed, mutex_, clients_ >>
          ELSE \* the join returns and the handler is freed
               /\ obj' = [obj EXCEPT ![j] = "freed"]
               /\ crashed' = crashed
               /\ IF loc[t].todo = {j}
                  THEN /\ clients_' = clients_ \ loc[t].snap
                       /\ mutex_' = {}
                       /\ pc' = [pc EXCEPT ![t] = AfterCall(t, "remove_client")]
                       /\ loc' = [loc EXCEPT ![t] = NoLocals]
                  ELSE /\ pc' = [pc EXCEPT ![t] = "destroy"]
                       /\ loc' = [loc EXCEPT ![t].todo = @ \ {j}]
                       /\ UNCHANGED << mutex_, clients_ >>
  /\ UNCHANGED << next_id_, name_, inbound, outbox, issued, discCalls, cause,
                  apiCalls, peerWrites, rmLog, notreg >>


\* Room::broadcast(sender_id, sender_name, message) called by the main
\* thread: the payload is formatted, mutex_ is taken, the loop starts.
MainBroadcast(sender_id, sender_name) ==
  /\ ~crashed
  /\ pc[MainThread] = "idle"
  /\ apiCalls < MaxApiCalls
  /\ mutex_ = {}
  /\ mutex_' = {MainThread}
  /\ apiCalls' = apiCalls + 1
  /\ pc' = [pc EXCEPT ![MainThread] = "bcast"]
  /\ loc' = [loc EXCEPT ![MainThread] =
               [ NoLocals EXCEPT !.msg = Hi,
                                 !.payload = Payload(sender_name, Hi),
                                 !.sender = sender_id, !.exclude = TRUE,
                                 !.todo = clients_, !.snap = clients_,
                                 !.entry = {j \in clients_ : is_active(j)} ]]
  /\ UNCHANGED << next_id_, clients_, name_, running_, socket_, obj, inbound,
                  outbox, crashed, issued, discCalls, stopCalls, cause,
                  peerWrites, released, rmLog, notreg >>

\* Room::broadcast_all(sender_name, message) called by the main thread.
MainBroadcastAll ==
  /\ ~crashed
  /\ pc[MainThread] = "idle"
  /\ apiCalls < MaxApiCalls
  /\ mutex_ = {}
  /\ mutex_' = {MainThread}
  /\ apiCalls' = apiCalls + 1
  /\ pc' = [pc EXCEPT ![MainThread] = "bcast"]
  /\ loc' = [loc EXCEPT ![MainThread] =
               [ NoLocals EXCEPT !.msg = Hi,
                                 !.payload = Payload(ServerLabel, Hi),
                                 !.exclude = FALSE,
                                 !.todo = clients_, !.snap = clients_,
                                 !.entry = {j \in clients_ : is_active(j)},
                                 !.nid = next_id_ ]]
  /\ UNCHANGED << next_id_, clients_, name_, running_, socket_, obj, inbound,
                  outbox, crashed, issued, discCalls, stopCalls, cause,
                  peerWrites, released, rmLog, notreg >>

\* Room::remove_client(id) called by the main thread: the call is made and
\* waits for mutex_ (RemoveClient goes on from there).
MainRemove(id) ==
  /\ ~crashed
  /\ pc[MainThread] = "idle"
  /\ apiCalls < MaxApiCalls
  /\ apiCalls' = apiCalls + 1
  /\ pc' = [pc EXCEPT ![MainThread] = "rm_lock"]
  /\ loc' = [loc EXCEPT ![MainThread] = [NoLocals EXCEPT !.cur = id]]
  /\ UNCHANGED << next_id_, clients_, mutex_, name_, running_, socket_, obj,
                  inbound, outbox, crashed, issued, discCalls, stopCalls, cause,
                  peerWrites, released, rmLog, notreg >>

\* Room::stop_all() called by the main thread: under mutex_, stop() on
\* every entry, then clients_.clear(), which destroys the handlers one by
\* one (Destroy) before the call can return.
MainStopAll ==
  /\ ~crashed
  /\ pc[MainThread] = "idle"
  /\ apiCalls < MaxApiCalls
  /\ mutex_ = {}
  /\ apiCalls' = apiCalls + 1
  /\ running_' = StopRunning(clients_)
  /\ socket_' = StopSocket(clients_)
  /\ released' = CloseReleases(clients_)
  /\ stopCalls' = StopCount(clients_)
  /\ IF clients_ = {}
     THEN UNCHANGED << mutex_, pc, loc >>
     ELSE /\ mutex_' = {MainThread}
          /\ pc' = [pc EXCEPT ![MainThread] = "destroy"]
          /\ loc' = [loc EXCEPT ![MainThread] =
                       [NoLocals EXCEPT !.todo = clients_, !.snap = clients_]]
  /\ UNCHANGED << next_id_, clients_, name_, obj, inbound, outbox, crashed,
                  issued, discCalls, cause, peerWrites, rmLog, notreg >>

\* The text of a frame the peer of worker i writes as the k-th write of the
\* run: "hi" for the first worker's peer in the first write, and a text of
\* its own for every other peer and write.
Text(i, k) == Bytes(<<103 + i, 104 + k>>)

\* What the peer of worker i may write to its connection in one write: a
\* whole frame, a zero-length frame, a prefix declaring 100 MiB, a frame cut
\* after the first payload byte.
PeerInputs(i) ==
  LET t == Text(i, peerWrites + 1) IN
  { FrameOf(t), htonl(0), htonl(HundredMiB), STake(FrameOf(t), HeaderSize + 1) }

\* The peer of worker i writes bytes to its connection.
PeerWrite(i, w) ==
  /\ ~crashed
  /\ is_active(i)
  /\ inbound[i].fin = "open"
  /\ peerWrites < MaxPeerWrites
  /\ peerWrites' = peerWrites + 1
  /\ inbound' = [inbound EXCEPT ![i].buf = SCat(@, w)]
  /\ UNCHANGED << next_id_, clients_, mutex_, name_, running_, socket_, obj, pc,
                  loc, outbox, crashed, issued, discCalls, stopCalls, cause,
                  apiCalls, released, rmLog, notreg >>

\* The peer of worker i closes its end: the worker's stream ends after the
\* bytes already written.
PeerClose(i) ==
  /\ ~crashed
  /\ is_active(i)
  /\ inbound[i].fin = "open"
  /\ peerWrites < MaxPeerWrites
  /\ peerWrites' = peerWrites + 1
  /\ inbound' = [inbound EXCEPT ![i].fin = "eof"]
  /\ UNCHANGED << next_id_, clients_, mutex_, name_, running_, socket_, obj, pc,
                  loc, outbox, crashed, issued, discCalls, stopCalls, cause,
                  apiCalls, released, rmLog, notreg >>

\* The connection of worker i is reset: unread bytes are lost and ::recv
\* reports SOCKET_ERROR.
PeerReset(i) ==
  /\ ~crashed
  /\ is_active(i)
  /\ inbound[i].fin = "open"
  /\ peerWrites < MaxPeerWrites
  /\ peerWrites' = peerWrites + 1
  /\ inbound' = [inbound EXCEPT ![i] = [buf |-> <<>>, fin |-> "err"]]
  /\ UNCHANGED << next_id_, clients_, mutex_, name_, running_, socket_, obj, pc,
                  loc, outbox, crashed, issued, discCalls, stopCalls, cause,
                  apiCalls, released, rmLog, notreg >>

\* One step of worker i's receive thread.
WorkerStep(i) ==
  \/ Receive(i)
  \/ OnMessage(i)
  \/ BroadcastVisit(i)
  \/ BroadcastReturn(i)
  \/ LoopExit(i)
  \/ RemoveClient(i)
  \/ Destroy(i)

\* One step of the main thread inside a registry call.
MainStep ==
  \/ BroadcastVisit(MainThread)
  \/ BroadcastReturn(MainThread)
  \/ RemoveClient(MainThread)
  \/ Destroy(MainThread)

Next ==
  \/ \E name \in Names : AddClient(name)
  \/ \E i \in Workers : WorkerStep(i)
  \/ MainStep
  \/ \E sender_id \in Threads : MainBroadcast(sender_id, ServerLabel)
  \/ MainBroadcastAll
  \/ \E id \in Workers : MainRemove(id)
  \/ MainStopAll
  \/ \E i \in Workers : \E w \in PeerInputs(i) : PeerWrite(i, w)
  \/ \E i \in Workers : PeerClose(i)
  \/ \E i \in Workers : PeerReset(i)

Spec == Init /\ [][Next]_vars

\* The threads are scheduled by the operating system: a thread that can
\* take a step takes one.  The peers and the callers of the registry owe
\* nothing.
FairSpec ==
  /\ Spec
  /\ \A i \in Workers : WF_vars(WorkerStep(i))
  /\ WF_vars(MainStep)


\* ------------------------------------------------ the connected pair
\* One end calls send_message, the other receive_message; every ::send and
\* every ::recv is a step, and may move fewer bytes than it was asked for.

\* The messages given to send_message: the empty one, "hi", a payload of exactly MAX_MSG
\* bytes, one byte more than that, and 100 MiB.
FrameMsgs ==
  { <<>>, Hi, Run(0, MAX_MSG), Run(0, MAX_MSG + 1), Run(0, HundredMiB) }

\* The byte counts one ::send or ::recv may report when n bytes could move:
\* all of them, or, while the call has splits left, a single byte.
Chunks(n, splits) == IF splits < MaxSplits /\ n > 1 THEN {1, n} ELSE {n}

FrameInit ==
  /\ RegInit
  /\ FrameIdle
  /\ SendIdle
  /\ ConnIdle
  /\ ExtIdle

\* send_message(message) up to its first ::send: the is_valid test, then
\* net_len = htonl(len) handed to send_all.
SendMessage(message) ==
  /\ tx.pc = "idle"
  /\ ~tx.closed
  /\ Len(sentLog) < MaxFrames
  /\ sentLog' = Append(sentLog, message)
  /\ tx' = [tx EXCEPT !.pc = "hdr", !.buf = htonl(SLen(message)), !.splits = 0]
  /\ UNCHANGED << wire, rx, rcvd, notframe >>

\* One ::send of send_all: result bytes leave the buffer; when none are
\* left send_all returns true, and send_message goes on to the body
\* (len > 0) or returns.
SendSome ==
  /\ tx.pc \in {"hdr", "body"}
  /\ \E result \in Chunks(SLen(tx.buf), tx.splits) :
       LET left == SDrop(tx.buf, result)
           message == sentLog[Len(sentLog)]
       IN
       /\ wire' = SCat(wire, STake(tx.buf, result))
       /\ tx' = IF left # <<>>
                THEN [tx EXCEPT !.buf = left, !.splits = @ + 1]
                ELSE IF tx.pc = "hdr" /\ SLen(message) > 0
                THEN [tx EXCEPT !.pc = "body", !.buf = message, !.splits = 0]
                ELSE [tx EXCEPT !.pc = "idle", !.buf = <<>>, !.splits = 0]
  /\ UNCHANGED << rx, sentLog, rcvd, notframe >>

\* The sending end goes away (close(), or the process ends), whatever it
\* was doing: the stream ends after the bytes already sent.
SenderClose ==
  /\ ~tx.closed
  /\ tx' = [tx EXCEPT !.pc = "idle", !.buf = <<>>, !.splits = 0, !.closed = TRUE]
  /\ UNCHANGED << wire, rx, sentLog, rcvd, notframe >>

\* receive_message() up to its first ::recv: the is_valid test, then
\* recv_all for the sizeof(net_len) bytes of the prefix.
ReceiveCall ==
  /\ rx.pc = "idle"
  /\ Len(rcvd) < MaxFrames
  /\ rx' = [pc |-> "hdr", want |-> HeaderSize, got |-> <<>>, len |-> 0,
            splits |-> 0, eaten |-> 0]
  /\ UNCHANGED << tx, wire, sentLog, rcvd, notframe >>

\* What a receive_message call returned, with what the call did: the
\* declared length it decoded (0 when the prefix never arrived), how it
\* ended, and the bytes it took from the stream.
Result(kind, msg, len, how, eaten) ==
  [kind |-> kind, msg |-> msg, len |-> len, how |-> how, eaten |-> eaten]

\* The bytes that had arrived handed back as a message when the stream ends
\* inside the body.
PartialOnRecvAllFalse(phase, got, len, eaten) ==
  IF phase = "body" /\ got # <<>>
  THEN [kind |-> "msg", msg |-> got, len |-> len, how |-> "eof_body",
        eaten |-> eaten]
  ELSE [kind |-> "empty", msg |-> <<>>, len |-> len,
        how |-> IF phase = "hdr" THEN "eof_hdr" ELSE "eof_body", eaten |-> eaten]

\* if (!recv_all(...)) return {};  for the prefix and for the body: got is
\* what had arrived when the stream ended.
OnRecvAllFalse(phase, got, len, eaten) ==
  Result("empty", <<>>, len, IF phase = "hdr" THEN "eof_hdr" ELSE "eof_body", eaten)

\* The prefix decoded without the test for a length of 0.
OnPrefixNoZeroTest(len, eaten) ==
  IF TooLarge(len) THEN Result("throw", <<>>, len, "cap", eaten)
  ELSE Result("body", <<>>, len, "body", eaten)

\* receive_message once the prefix is in net_len: len = ntohl(net_len), the
\* len == 0 return, the MAX_MSG guard.  "body" stands for going on to read
\* the body.
OnPrefix(len, eaten) ==
  IF len = 0 THEN Result("empty", <<>>, len, "zero", eaten)
  ELSE IF TooLarge(len) THEN Result("throw", <<>>, len, "cap", eaten)
  ELSE Result("body", <<>>, len, "body", eaten)

RxIdle == [pc |-> "idle", want |-> 0, got |-> <<>>, len |-> 0, splits |-> 0, eaten |-> 0]

\* One ::recv of recv_all.  With bytes on the stream it reports some of
\* them; with none and the stream ended it reports 0 and recv_all returns
\* false; with none and the stream open it blocks.  When recv_all has all
\* it wanted, receive_message decodes the prefix, or returns the body.
RecvSome ==
  /\ rx.pc \in {"hdr", "body"}
  /\ IF wire = <<>>
     THEN /\ tx.closed
          /\ rcvd' = Append(rcvd, OnRecvAllFalse(rx.pc, rx.got, rx.len, rx.eaten))
          /\ rx' = RxIdle
          /\ wire' = wire
     ELSE \E result \in Chunks(IF SLen(wire) < rx.want THEN SLen(wire) ELSE rx.want,
                               rx.splits) :
            LET got == SCat(rx.got, STake(wire, result))
                eaten == rx.eaten + result
                r == OnPrefix(ntohl(got), eaten)
            IN
            /\ wire' = SDrop(wire, result)
            /\ IF result < rx.want
               THEN /\ rx' = [rx EXCEPT !.got = got, !.want = @ - result,
                                        !.splits = @ + 1, !.eaten = eaten]
                    /\ rcvd' = rcvd
               ELSE IF rx.pc = "body"
               THEN /\ rx' = RxIdle
                    /\ rcvd' = Append(rcvd, Result("msg", got, rx.len, "ok", eaten))
               ELSE IF r.kind = "body"
               THEN /\ rx' = [rx EXCEPT !.pc = "body", !.got = <<>>, !.want = r.len,
                                        !.len = r.len, !.splits = 0, !.eaten = eaten]
                    /\ rcvd' = rcvd
               ELSE /\ rx' = RxIdle
                    /\ rcvd' = Append(rcvd, r)
  /\ UNCHANGED << tx, sentLog, notframe >>

FrameNext ==
  \/ \E message \in FrameMsgs : SendMessage(message)
  \/ SendSome
  \/ SenderClose
  \/ ReceiveCall
  \/ RecvSome

FrameSpec == FrameInit /\ [][FrameNext]_vars


\* ------------------------------------------------ concurrent senders
\* Several threads call ClientHandler::send on one worker; every ::send of
\* send_all is a step.  stop() may close the socket at any moment.

\* The text thread s sends: "aa", "bb", ...
SendText(s) == Bytes(<<96 + s, 96 + s>>)

\* The call thread s is making (or made last): the thread and its count.
CallOf(s) == << s, sender[s].calls >>

\* The calls of send made so far.
SendCalls == {c \in Senders \X (1 .. MaxSendCalls) : c[2] <= sender[c[1]].calls}

\* The lock taken without waiting for its owner.
LockNotHeld == TRUE

\* LockGuard<Mutex> lock(send_mutex_): the mutex can be taken when no thread owns it.
LockFree == send_mutex_ = {}

SendInit ==
  /\ RegInit
  /\ FrameIdle
  /\ SendIdle
  /\ ConnIdle
  /\ ExtIdle

\* Thread s calls send(message) and waits for send_mutex_.
SendCall(s) ==
  /\ sender[s].pc = "idle"
  /\ Cardinality(SendCalls) < MaxSendCalls
  /\ sender' = [sender EXCEPT ![s].pc = "lock", ![s].calls = @ + 1]
  /\ UNCHANGED << send_mutex_, sendWire, sendLog, sendSock, sendFaults, notsend >>

\* Thread s gets send_mutex_ and tests socket_.is_valid(): valid,
\* send_message hands net_len to send_all; invalid, send returns.
SendLock(s) ==
  /\ sender[s].pc = "lock"
  /\ LockFree
  /\ IF sendSock = "open"
     THEN /\ send_mutex_' = {s}
          /\ sender' = [sender EXCEPT ![s].pc = "hdr",
                                      ![s].buf = htonl(SLen(SendText(s))),
                                      ![s].splits = 0]
          /\ sendLog' = sendLog
     ELSE /\ send_mutex_' = send_mutex_
          /\ sender' = [sender EXCEPT ![s].pc = "idle"]
          /\ sendLog' = Append(sendLog, [call |-> CallOf(s), how |-> "invalid"])
  /\ UNCHANGED << sendWire, sendSock, sendFaults, notsend >>

\* One ::send of send_all in thread s.  On SOCKET_ERROR send_all returns
\* false, send_message throws, send catches it and returns; otherwise the
\* bytes reported leave the buffer, and with none left send_message goes
\* on to the body or returns.  Returning releases send_mutex_.
SendWrite(s) ==
  /\ sender[s].pc \in {"hdr", "body"}
  /\ \/ /\ sendSock = "open" => sendFaults < MaxSendFaults
        /\ sendFaults' = IF sendSock = "open" THEN sendFaults + 1 ELSE sendFaults
        /\ sender' = [sender EXCEPT ![s].pc = "idle", ![s].buf = <<>>]
        /\ send_mutex_' = send_mutex_ \ {s}
        /\ sendLog' = Append(sendLog, [call |-> CallOf(s), how |-> "error"])
        /\ sendWire' = sendWire
     \/ /\ sendSock = "open"
        /\ \E result \in Chunks(SLen(sender[s].buf), sender[s].splits) :
             LET left == SDrop(sender[s].buf, result)
                 out == [k \in 1 .. result |->
                           [call |-> CallOf(s), b |-> SAt(sender[s].buf, k)]]
             IN
             /\ sendWire' = sendWire \o out
             /\ IF left # <<>>
                THEN /\ sender' = [sender EXCEPT ![s].buf = left, ![s].splits = @ + 1]
                     /\ UNCHANGED << send_mutex_, sendLog >>
                ELSE IF sender[s].pc = "hdr" /\ SLen(SendText(s)) > 0
                THEN /\ sender' = [sender EXCEPT ![s].pc = "body",
                                                 ![s].buf = SendText(s),
                                                 ![s].splits = 0]
                     /\ UNCHANGED << send_mutex_, sendLog >>
                ELSE /\ sender' = [sender EXCEPT ![s].pc = "idle", ![s].buf = <<>>]
                     /\ send_mutex_' = send_mutex_ \ {s}
                     /\ sendLog' = Append(sendLog, [call |-> CallOf(s), how |-> "ok"])
        /\ sendFaults' = sendFaults
  /\ UNCHANGED << sendSock, notsend >>

\* ClientHandler::stop() from another thread: socket_.close(), without
\* send_mutex_.
SendStop ==
  /\ sendSock = "open"
  /\ sendSock' = "invalid"
  /\ UNCHANGED << send_mutex_, sender, sendWire, sendLog, sendFaults, notsend >>

SendNext ==
  \/ \E s \in Senders : SendCall(s)
  \/ \E s \in Senders : SendLock(s)
  \/ \E s \in Senders : SendWrite(s)
  \/ SendStop

SendSpec == SendInit /\ [][SendNext]_vars


\* ------------------------------------------------ the handoff
\* SocketWrapper objects: construction from an accepted handle, the moves
\* of the accept -> callback -> add_client -> ClientHandler handoff, close,
\* destruction, and send_message / receive_message on any live object.

\* SocketWrapper::is_valid of object o.
ObjValid(o) == sock_[o] # INVALID_SOCKET

\* The source of a move left holding the handle.
MovedFromKeeps(h) == h

\* other.sock_ = INVALID_SOCKET: what the source of a move holds afterwards.
MovedFrom(h) == INVALID_SOCKET

\* A transport error that made the object give up its handle.
AfterErrorInvalid(h) == INVALID_SOCKET

\* send_all / recv_all returning false: ::send or ::recv reported
\* SOCKET_ERROR or 0, and sock_ is what it was.
AfterError(h) == h

\* SocketWrapper::close() on an object holding v: the handles afterwards.
\* ::shutdown and ::closesocket run only if (sock_ != INVALID_SOCKET).
Closed(hs, v) ==
  IF v = INVALID_SOCKET THEN hs
  ELSE [hs EXCEPT ![v].state = "closed", ![v].closes = @ + 1]

\* The moves of handles made once a move has taken v out of its object.
Moved(v) == IF v = INVALID_SOCKET THEN connMoves ELSE connMoves + 1

\* Objects and handles are numbered in the order they come into being: o
\* is the next object to be constructed.
NextObj(o) == life[o] = "none" /\ \A n \in Objs : n < o => life[n] # "none"

\* A move out of src is within the bound: it moves no handle, or fewer
\* than MaxMoves moves of handles have been made.
CanMove(src) == ~ObjValid(src) \/ connMoves < MaxMoves

ConnInit ==
  /\ RegInit
  /\ FrameIdle
  /\ SendIdle
  /\ ConnIdle
  /\ ExtIdle

\* SocketWrapper(SOCKET sock) on a handle accept() has just returned.
Construct(o, h) ==
  /\ NextObj(o)
  /\ handle[h].state = "free"
  /\ \A g \in Handles : g < h => handle[g].state # "free"
  /\ life' = [life EXCEPT ![o] = "live"]
  /\ sock_' = [sock_ EXCEPT ![o] = h]
  /\ handle' = [handle EXCEPT ![h].state = "open"]
  /\ UNCHANGED << connLog, connMoves, notconn >>

\* SocketWrapper(SocketWrapper &&other): dst is constructed from src.
MoveConstruct(dst, src) ==
  /\ NextObj(dst)
  /\ life[src] = "live"
  /\ CanMove(src)
  /\ life' = [life EXCEPT ![dst] = "live"]
  /\ sock_' = [sock_ EXCEPT ![dst] = sock_[src], ![src] = MovedFrom(sock_[src])]
  /\ connMoves' = Moved(sock_[src])
  /\ UNCHANGED << handle, connLog, notconn >>

\* operator=(SocketWrapper &&other): nothing when this == &other; otherwise
\* close(), then the handle is taken from src.
MoveAssign(dst, src) ==
  /\ life[dst] = "live"
  /\ life[src] = "live"
  /\ CanMove(src)
  /\ IF dst = src
     THEN UNCHANGED << sock_, handle, connMoves >>
     ELSE /\ sock_' = [sock_ EXCEPT ![dst] = sock_[src], ![src] = MovedFrom(sock_[src])]
          /\ handle' = Closed(handle, sock_[dst])
          /\ connMoves' = Moved(sock_[src])
  /\ UNCHANGED << life, connLog, notconn >>

\* SocketWrapper::close() on object o.
Close(o) ==
  /\ life[o] = "live"
  /\ handle' = Closed(handle, sock_[o])
  /\ sock_' = [sock_ EXCEPT ![o] = INVALID_SOCKET]
  /\ UNCHANGED << life, connLog, connMoves, notconn >>

\* ~SocketWrapper() { close(); }
Destruct(o) ==
  /\ life[o] = "live"
  /\ handle' = Closed(handle, sock_[o])
  /\ sock_' = [sock_ EXCEPT ![o] = INVALID_SOCKET]
  /\ life' = [life EXCEPT ![o] = "dead"]
  /\ UNCHANGED << connLog, connMoves, notconn >>

\* The transport of an open handle fails (the connection is reset): from
\* now on ::send and ::recv on it report SOCKET_ERROR.
LinkDown(h) ==
  /\ handle[h].state = "open"
  /\ handle[h].link = "up"
  /\ handle' = [handle EXCEPT ![h].link = "down"]
  /\ UNCHANGED << sock_, life, connLog, connMoves, notconn >>

\* One call on object o, as logged: what it was, whether the object was
\* valid, how it ended, and the ::send / ::recv calls it made.
ConnOp(o, op, result, io) ==
  [op |-> op, valid |-> ObjValid(o), result |-> result, io |-> io]

\* send_message on object o.  Invalid: it throws "socket is not valid".
\* Valid: send_all for the prefix, then for the body; a ::send reporting
\* SOCKET_ERROR makes it throw, and leaves sock_ as it was.
ConnSend(o) ==
  /\ life[o] = "live"
  /\ IF ~ObjValid(o)
     THEN /\ connLog' = ConnOp(o, "send", "rejected", 0)
          /\ UNCHANGED << handle, sock_ >>
     ELSE IF handle[sock_[o]].link = "up"
     THEN /\ connLog' = ConnOp(o, "send", "ok", 2)
          /\ UNCHANGED << handle, sock_ >>
     ELSE /\ connLog' = ConnOp(o, "send", "transport_error", 1)
          /\ handle' = [handle EXCEPT ![sock_[o]].link = "hit"]
          /\ sock_' = [sock_ EXCEPT ![o] = AfterError(@)]
  /\ UNCHANGED << life, connMoves, notconn >>

\* receive_message on object o.  Invalid: it returns {}.  Valid: recv_all
\* for the prefix, then for the body; a ::recv reporting SOCKET_ERROR makes
\* recv_all return false and receive_message return {}, and leaves sock_
\* as it was.
ConnReceive(o) ==
  /\ life[o] = "live"
  /\ IF ~ObjValid(o)
     THEN /\ connLog' = ConnOp(o, "receive", "empty", 0)
          /\ UNCHANGED << handle, sock_ >>
     ELSE IF handle[sock_[o]].link = "up"
     THEN /\ connLog' = ConnOp(o, "receive", "msg", 2)
          /\ UNCHANGED << handle, sock_ >>
     ELSE /\ connLog' = ConnOp(o, "receive", "empty", 1)
          /\ handle' = [handle EXCEPT ![sock_[o]].link = "hit"]
          /\ sock_' = [sock_ EXCEPT ![o] = AfterError(@)]
  /\ UNCHANGED << life, connMoves, notconn >>

ConnNext ==
  \/ \E o \in Objs, h \in Handles : Construct(o, h)
  \/ \E dst, src \in Objs : MoveConstruct(dst, src)
  \/ \E dst, src \in Objs : MoveAssign(dst, src)
  \/ \E o \in Objs : Close(o)
  \/ \E o \in Objs : Destruct(o)
  \/ \E h \in Handles : LinkDown(h)
  \/ \E o \in Objs : ConnSend(o)
  \/ \E o \in Objs : ConnReceive(o)

ConnSpec == ConnInit /\ [][ConnNext]_vars


\* ------------------------------------------------ the listener
\* Server: the controlling thread calls start_accept_loop() and stop(); the
\* accept thread runs accept_loop(); connections arrive on the listening
\* socket.

\* Server::is_running()
is_running == srv_running_

\* The accept thread is inside accept_loop().
Looping == acceptPc \in {"test", "accept", "got", "callback"}

\* The loop going round again after ::accept returned INVALID_SOCKET.
OnAcceptFailRetry == "test"

\* if (client_sock == INVALID_SOCKET) break;  accept_loop() returns and the
\* thread ends.
OnAcceptFail == "ended"

\* What sock.send_message(reply) can do in the new-client callback: the
\* frame goes out, or the peer is gone and send_all fails.
ReplyOutcomes ==
  IF srvLog.replyFaults < MaxReplyFaults THEN {TRUE, FALSE} ELSE {TRUE}

\* The reply of the handshake fails: send_message throws
\* std::runtime_error, and neither the callback, nor accept_loop, nor
\* Thread::thread_func has a handler for it, so the exception leaves the
\* thread function and the process is terminated.
OnReplyFail == "terminated"

\* The process has been terminated: no thread of it runs any more.
Terminated == acceptPc = "terminated"

\* stop() returning without waiting for the accept thread.
JoinSkipped == TRUE

\* accept_thread_.join(): WaitForSingleObject returns once the accept
\* thread has ended.
JoinDone == acceptPc = "ended"

ListenInit ==
  /\ RegInit
  /\ FrameIdle
  /\ SendIdle
  /\ ConnIdle
  /\ ExtIdle

\* start_accept_loop(): nothing when running_ is set; otherwise running_
\* is set and the accept thread is created.
StartAcceptLoop ==
  /\ ~Terminated
  /\ ctlPc = "idle"
  /\ srvLog.calls < MaxCtlCalls
  /\ IF srv_running_
     THEN /\ srvLog' = [srvLog EXCEPT !.calls = @ + 1]
          /\ UNCHANGED << srv_running_, accept_thread_, acceptPc >>
     ELSE /\ srv_running_' = TRUE
          /\ accept_thread_' = "joinable"
          /\ acceptPc' = "test"
          /\ srvLog' = [srvLog EXCEPT !.calls = @ + 1, !.starts = @ + 1,
                                      !.failedNow = FALSE]
  /\ UNCHANGED << listen_sock_, listenOs, ctlPc, notlsn >>

\* stop() up to the join: the early return when the server is neither
\* running nor holding a socket; otherwise running_ is cleared and the
\* listening socket closed; with no joinable thread the call returns.
Stop ==
  /\ ~Terminated
  /\ ctlPc = "idle"
  /\ srvLog.calls < MaxCtlCalls
  /\ IF ~srv_running_ /\ listen_sock_ = "invalid"
     THEN /\ srvLog' = [srvLog EXCEPT !.calls = @ + 1, !.noops = @ + 1]
          /\ UNCHANGED << srv_running_, listen_sock_, listenOs, ctlPc >>
     ELSE /\ srv_running_' = FALSE
          /\ listen_sock_' = "invalid"
          /\ listenOs' = IF listen_sock_ = "open"
                         THEN [listenOs EXCEPT !.state = "closed", !.queued = 0,
                                               !.closes = @ + 1]
                         ELSE listenOs
          /\ IF accept_thread_ = "joinable"
             THEN /\ ctlPc' = "stop_join"
                  /\ srvLog' = [srvLog EXCEPT !.calls = @ + 1]
             ELSE /\ ctlPc' = "idle"
                  /\ srvLog' = [srvLog EXCEPT !.calls = @ + 1,
                                              !.stopsReturned = @ + 1,
                                              !.taskAtReturn = acceptPc]
  /\ UNCHANGED << accept_thread_, acceptPc, notlsn >>

\* stop() from accept_thread_.join() to its return.
StopJoin ==
  /\ ctlPc = "stop_join"
  /\ JoinDone
  /\ accept_thread_' = "empty"
  /\ ctlPc' = "idle"
  /\ srvLog' = [srvLog EXCEPT !.stopsReturned = @ + 1, !.taskAtReturn = acceptPc]
  /\ UNCHANGED << srv_running_, listen_sock_, acceptPc, listenOs, notlsn >>

\* while (running_.load())
LoopTest ==
  /\ acceptPc = "test"
  /\ acceptPc' = IF srv_running_ THEN "accept" ELSE "ended"
  /\ UNCHANGED << srv_running_, listen_sock_, accept_thread_, listenOs, ctlPc,
                  srvLog, notlsn >>

\* ::accept(listen_sock_, ...) returns: a connection when one is queued on
\* the listening socket; INVALID_SOCKET when the socket has been closed or
\* the call fails for another reason.  Until then the thread is blocked.
Accept ==
  /\ acceptPc = "accept"
  /\ \/ /\ listenOs.state = "listening"
        /\ listenOs.queued > 0
        /\ listenOs' = [listenOs EXCEPT !.queued = @ - 1]
        /\ acceptPc' = "got"
        /\ srvLog' = [srvLog EXCEPT !.retried = @ \/ srvLog.failedNow]
     \/ /\ \/ listenOs.state = "closed"
           \/ srvLog.faults < MaxAcceptFaults
        /\ listenOs' = listenOs
        /\ acceptPc' = OnAcceptFail
        /\ srvLog' = [srvLog EXCEPT
                        !.faults = IF listenOs.state = "closed" THEN @ ELSE @ + 1,
                        !.failedNow = TRUE,
                        !.retried = @ \/ srvLog.failedNow]
  /\ UNCHANGED << srv_running_, listen_sock_, accept_thread_, ctlPc, notlsn >>

\* on_new_client_(SocketWrapper(client_sock), ip) is invoked.
InvokeCallback ==
  /\ acceptPc = "got"
  /\ acceptPc' = "callback"
  /\ srvLog' = [srvLog EXCEPT !.callbacks = @ + 1,
                              !.cbAfterStop = @ \/ (srvLog.stopsReturned > 0)]
  /\ UNCHANGED << srv_running_, listen_sock_, accept_thread_, listenOs, ctlPc,
                  notlsn >>

\* The new-client callback of run_server: the user name and the version
\* are read (a failure there is caught and a default taken), the reply
\* CMD:OK or CMD:UPDATE is sent, the connection is handed to
\* Room::add_client, the callback returns and the loop goes round.  A
\* reply that fails throws out of the callback.
CallbackReturn ==
  /\ acceptPc = "callback"
  /\ \E ok \in ReplyOutcomes :
       /\ acceptPc' = IF ok THEN "test" ELSE OnReplyFail
       /\ srvLog' = [srvLog EXCEPT !.registered = IF ok THEN @ + 1 ELSE @,
                                   !.replyFaults = IF ok THEN @ ELSE @ + 1]
  /\ UNCHANGED << srv_running_, listen_sock_, accept_thread_, listenOs, ctlPc,
                  notlsn >>

\* A peer connects: the connection is queued on the listening socket.
Arrive ==
  /\ ~Terminated
  /\ listenOs.state = "listening"
  /\ listenOs.arrived < MaxConns
  /\ listenOs' = [listenOs EXCEPT !.queued = @ + 1, !.arrived = @ + 1]
  /\ UNCHANGED << srv_running_, listen_sock_, accept_thread_, acceptPc, ctlPc,
                  srvLog, notlsn >>

ListenNext ==
  \/ StartAcceptLoop
  \/ Stop
  \/ StopJoin
  \/ LoopTest
  \/ Accept
  \/ InvokeCallback
  \/ CallbackReturn
  \/ Arrive

ListenSpec == ListenInit /\ [][ListenNext]_vars


\* ------------------------------------------------ the connector
\* Client::connect_to(host, port): getaddrinfo, then one ::socket and one
\* ::connect per candidate until a connect succeeds.  The socket opened for
\* the candidate at position k is handle k.

\* What a candidate address does: ::socket fails for it, ::connect fails,
\* or ::connect succeeds.
CandOutcomes == {"nosock", "refused", "ok"}

\* The lists getaddrinfo can return within the bound: one candidate or more.
RECURSIVE CandLists(_)
CandLists(n) ==
  IF n = 0 THEN { <<>> }
  ELSE LET shorter == CandLists(n - 1)
       IN  shorter \cup { Append(l, o) : l \in {x \in shorter : Len(x) = n - 1},
                                         o \in CandOutcomes }

\* The socket of a candidate whose connect failed left open.
LeakFailed(closed, k) == closed

\* ::closesocket(sock) after a failed ::connect.
CloseFailed(closed, k) == closed \cup {k}

ConnectInit ==
  /\ RegInit
  /\ FrameIdle
  /\ SendIdle
  /\ ConnIdle
  /\ ExtIdle

\* getaddrinfo: it fails and connect_to throws, or it returns a list.
Resolve ==
  /\ cliPc = "idle"
  /\ \/ /\ cliPc' = "threw_resolve"
        /\ UNCHANGED << cands, ptr >>
     \/ \E l \in CandLists(MaxCands) \ { <<>> } :
          /\ cands' = l
          /\ ptr' = 1
          /\ cliPc' = "socket"
  /\ UNCHANGED << sock, cliLog, notcli >>

\* The head of the for loop and ::socket for the candidate at ptr; past the
\* end of the list the loop is left.
OpenSocket ==
  /\ cliPc = "socket"
  /\ IF ptr > Len(cands)
     THEN /\ cliPc' = "free"
          /\ UNCHANGED << ptr, sock, cliLog >>
     ELSE IF cands[ptr] = "nosock"
     THEN \* sock == INVALID_SOCKET: continue
          /\ sock' = INVALID_SOCKET
          /\ ptr' = ptr + 1
          /\ UNCHANGED << cliPc, cliLog >>
     ELSE /\ sock' = ptr
          /\ cliLog' = [cliLog EXCEPT !.opened = @ \cup {ptr}]
          /\ cliPc' = "connect"
          /\ ptr' = ptr
  /\ UNCHANGED << cands, notcli >>

\* ::connect for the candidate at ptr: on SOCKET_ERROR the socket is closed
\* and the loop goes on; otherwise the loop is left with sock connected.
Connect ==
  /\ cliPc = "connect"
  /\ IF cands[ptr] = "refused"
     THEN /\ cliLog' = [cliLog EXCEPT !.attempted = Append(@, ptr),
                                      !.closed = CloseFailed(@, sock)]
          /\ sock' = INVALID_SOCKET
          /\ ptr' = ptr + 1
          /\ cliPc' = "socket"
     ELSE /\ cliLog' = [cliLog EXCEPT !.attempted = Append(@, ptr)]
          /\ cliPc' = "free"
          /\ UNCHANGED << sock, ptr >>
  /\ UNCHANGED << cands, notcli >>

\* ::freeaddrinfo(result), then the throw when sock is INVALID_SOCKET or
\* the return of SocketWrapper(sock).
FreeAndReturn ==
  /\ cliPc = "free"
  /\ cliLog' = [cliLog EXCEPT !.freed = TRUE]
  /\ cliPc' = IF sock = INVALID_SOCKET THEN "threw_connect" ELSE "returned"
  /\ UNCHANGED << cands, ptr, sock, notcli >>

ConnectNext ==
  \/ Resolve
  \/ OpenSocket
  \/ Connect
  \/ FreeAndReturn

ConnectSpec == ConnectInit /\ [][ConnectNext]_vars


\* ------------------------------------------------ the network manager
\* NetworkManager on the client side: start() is called once, the receive
\* thread runs receive_loop(), the peer sends frames and closes, and the
\* main thread calls stop() (run_client, then the destructor).

\* The receive thread has run to its end, the disconnect callback included.
NmFinished == nmPc = "ended"

NmInit ==
  /\ RegInit
  /\ FrameIdle
  /\ SendIdle
  /\ ConnIdle
  /\ ExtIdle

\* start(): running_ is set and the receive thread created.
NmStart ==
  /\ nmCtl = "idle"
  /\ nmPc = "none"
  /\ nmLog.stops = 0
  /\ ~nm_running_
  /\ nm_running_' = TRUE
  /\ nm_recv_thread_' = "joinable"
  /\ nmPc' = "test"
  /\ UNCHANGED << nmSocket, nmCtl, nmPeer, nmLog, notnm >>

\* stop() up to the join: it returns at once when running_ is false;
\* otherwise running_ is cleared and the socket closed.
NmStop ==
  /\ nmCtl = "idle"
  /\ nmPc # "none"
  /\ nmLog.stops < MaxNmStops
  /\ IF ~nm_running_
     THEN /\ nmLog' = [nmLog EXCEPT !.stops = @ + 1, !.returned = @ + 1,
                                    !.taskAtReturn = nmPc,
                                    !.sockAtReturn = nmSocket]
          /\ UNCHANGED << nm_running_, nmSocket, nmCtl >>
     ELSE /\ nm_running_' = FALSE
          /\ nmSocket' = "invalid"
          /\ nmCtl' = "stop_join"
          /\ nmLog' = [nmLog EXCEPT !.stops = @ + 1]
  /\ UNCHANGED << nm_recv_thread_, nmPc, nmPeer, notnm >>

\* stop() from recv_thread_.join() to its return.
NmStopJoin ==
  /\ nmCtl = "stop_join"
  /\ nm_recv_thread_ = "joinable" => NmFinished
  /\ nm_recv_thread_' = "empty"
  /\ nmCtl' = "idle"
  /\ nmLog' = [nmLog EXCEPT !.returned = @ + 1, !.taskAtReturn = nmPc,
                            !.sockAtReturn = nmSocket]
  /\ UNCHANGED << nm_running_, nmSocket, nmPc, nmPeer, notnm >>

\* while (running_.load())
NmLoopTest ==
  /\ nmPc = "test"
  /\ nmPc' = IF nm_running_ THEN "recv" ELSE "exit"
  /\ UNCHANGED << nm_running_, nmSocket, nm_recv_thread_, nmCtl, nmPeer, nmLog,
                  notnm >>

\* msg = socket_.receive_message() returns: empty on an invalid socket or
\* at the end of the stream, which ends the loop; a message otherwise.
\* With no frame and the stream open the thread is blocked.
NmReceive ==
  /\ nmPc = "recv"
  /\ IF nmSocket = "invalid"
     THEN nmPc' = "exit" /\ nmPeer' = nmPeer
     ELSE IF nmPeer.frames > 0
     THEN nmPc' = "on_msg" /\ nmPeer' = [nmPeer EXCEPT !.frames = @ - 1]
     ELSE nmPeer.fin /\ nmPc' = "exit" /\ nmPeer' = nmPeer
  /\ UNCHANGED << nm_running_, nmSocket, nm_recv_thread_, nmCtl, nmLog, notnm >>

\* on_message_(msg) runs and returns.
NmOnMessage ==
  /\ nmPc = "on_msg"
  /\ nmPc' = "test"
  /\ nmLog' = [nmLog EXCEPT !.messages = @ + 1]
  /\ UNCHANGED << nm_running_, nmSocket, nm_recv_thread_, nmCtl, nmPeer, notnm >>

\* After the loop: running_.store(false), then on_disconnect_() is invoked.
NmLoopExit ==
  /\ nmPc = "exit"
  /\ nm_running_' = FALSE
  /\ nmPc' = "disc_cb"
  /\ nmLog' = [nmLog EXCEPT !.disconnects = @ + 1]
  /\ UNCHANGED << nmSocket, nm_recv_thread_, nmCtl, nmPeer, notnm >>

\* on_disconnect_() returns and the thread ends.
NmDisconnected ==
  /\ nmPc = "disc_cb"
  /\ nmPc' = "ended"
  /\ UNCHANGED << nm_running_, nmSocket, nm_recv_thread_, nmCtl, nmPeer, nmLog,
                  notnm >>

\* The peer sends a frame with a non-empty payload.
NmPeerSend ==
  /\ ~nmPeer.fin
  /\ nmPeer.sent < MaxNmFrames
  /\ nmPeer' = [nmPeer EXCEPT !.frames = @ + 1, !.sent = @ + 1]
  /\ UNCHANGED << nm_running_, nmSocket, nm_recv_thread_, nmPc, nmCtl, nmLog,
                  notnm >>

\* The peer closes the connection.
NmPeerClose ==
  /\ ~nmPeer.fin
  /\ nmPeer' = [nmPeer EXCEPT !.fin = TRUE]
  /\ UNCHANGED << nm_running_, nmSocket, nm_recv_thread_, nmPc, nmCtl, nmLog,
                  notnm >>

NmNext ==
  \/ NmStart
  \/ NmStop
  \/ NmStopJoin
  \/ NmLoopTest
  \/ NmReceive
  \/ NmOnMessage
  \/ NmLoopExit
  \/ NmDisconnected
  \/ NmPeerSend
  \/ NmPeerClose

NmSpec == NmInit /\ [][NmNext]_vars


\* ------------------------------------------------ the chat path
\* run_client's and run_server's input loops after the handshake, and the
\* relay of the client's frames by its worker on the server.

\* "quit"
Quit == Bytes(<<113, 117, 105, 116>>)

\* What std::getline may put in line.
ChatLines == { <<>>, Hi, Quit }

\* No line passed over.
SkipNothing(line) == FALSE

\* if (line.empty()) continue;
SkipLine(line) == line = <<>>

\* One payload given to send_message: who sent it, the line or message it
\* was made from, and the payload.
Sent(by, line, payload) == [by |-> by, line |-> line, payload |-> payload]

ChatInit ==
  /\ RegInit
  /\ FrameIdle
  /\ SendIdle
  /\ ConnIdle
  /\ ExtIdle

\* room.add_client in the server's callback: the client is registered.
ChatJoin ==
  /\ ~chat.joined
  /\ chat.cli = "loop"
  /\ chat' = [chat EXCEPT !.joined = TRUE]
  /\ UNCHANGED << chatSent, notchat >>

\* One turn of run_client's loop with the line getline returned: "quit"
\* leaves the loop, an empty line is passed over, any other line goes to
\* nm.send(line).
ClientTurn(line) ==
  /\ chat.cli = "loop"
  /\ chat.cliReads < MaxChatLines
  /\ IF line = Quit
     THEN /\ chat' = [chat EXCEPT !.cli = "done", !.cliReads = @ + 1]
          /\ chatSent' = chatSent
     ELSE IF SkipLine(line)
     THEN /\ chat' = [chat EXCEPT !.cliReads = @ + 1]
          /\ chatSent' = chatSent
     ELSE /\ chat' = [chat EXCEPT !.cliReads = @ + 1, !.up = Append(@, line)]
          /\ chatSent' = Append(chatSent, Sent("client", line, line))
  /\ UNCHANGED notchat

\* One turn of run_server's loop with the line getline returned: "quit"
\* leaves the loop, an empty line is passed over, with no client registered
\* nothing is sent, otherwise room.broadcast_all("Server", line).
ServerTurn(line) ==
  /\ chat.srv = "loop"
  /\ chat.srvReads < MaxChatLines
  /\ IF line = Quit
     THEN /\ chat' = [chat EXCEPT !.srv = "done", !.srvReads = @ + 1]
          /\ chatSent' = chatSent
     ELSE /\ chat' = [chat EXCEPT !.srvReads = @ + 1]
          /\ chatSent' = IF SkipLine(line) \/ ~chat.joined
                         THEN chatSent
                         ELSE Append(chatSent,
                                     Sent("server", line, Payload(ServerLabel, line)))
  /\ UNCHANGED notchat

\* The client's worker on the server reads the client's next frame: an
\* empty message ends its loop, any other is relayed by Room::broadcast.
ChatRelay(name) ==
  /\ chat.joined
  /\ chat.srv = "loop"
  /\ chat.up # <<>>
  /\ LET msg == Head(chat.up) IN
     IF msg = <<>>
     THEN /\ chat' = [chat EXCEPT !.up = <<>>, !.joined = FALSE]
          /\ chatSent' = chatSent
     ELSE /\ chat' = [chat EXCEPT !.up = Tail(@)]
          /\ chatSent' = Append(chatSent, Sent("relay", msg, Payload(name, msg)))
  /\ UNCHANGED notchat

ChatNext ==
  \/ ChatJoin
  \/ \E line \in ChatLines : ClientTurn(line)
  \/ \E line \in ChatLines : ServerTurn(line)
  \/ \E name \in Names : ChatRelay(name)

ChatSpec == ChatInit /\ [][ChatNext]_vars


\* ================================================================ claims

\* How often worker j occurs in the sequence q of workers sent to.
Occurrences(q, j) == Cardinality({k \in 1 .. Len(q) : q[k] = j})

\* C1: in every Room::broadcast(sender_id, name, text) call, each entry the
\* loop has visited was sent the payload once if its id differs from
\* sender_id and it reported itself active, and not at all otherwise; no
\* entry not yet visited, no unregistered worker and never sender_id was
\* sent to; the payload is "[", the name, "]: " and the text; and where the peer is still
\* there, the payload is the last frame written to it.
C1_BroadcastExcludesSender ==
  \A t \in Threads :
    (pc[t] = "bcast" /\ loc[t].exclude) =>
      /\ loc[t].payload =
           SCat(Bytes(<<91, IF t = MainThread THEN 83 ELSE SAt(name_[t], 1),
                        93, 58, 32>>),
                loc[t].msg)
      /\ \A j \in Workers :
           LET visited == j \in loc[t].snap \ loc[t].todo
               due == visited /\ j # loc[t].sender /\ j \in loc[t].act
           IN  /\ Occurrences(loc[t].sent, j) = IF due THEN 1 ELSE 0
               /\ (due /\ inbound[j].fin = "open") =>
                    /\ outbox[j] # <<>>
                    /\ outbox[j][Len(outbox[j])] = loc[t].payload

\* C1 witness: a worker's broadcast has visited both entries of a registry
\* of two, its own and one active other, and has sent to the other alone.
C1_Witness ==
  \E t \in Workers :
    /\ pc[t] = "bcast"
    /\ loc[t].exclude
    /\ loc[t].todo = {}
    /\ loc[t].sender = t
    /\ Cardinality(loc[t].snap) = 2
    /\ t \in loc[t].snap
    /\ t \in loc[t].act
    /\ Len(loc[t].sent) = 1

\* C2: the ids add_client has returned start at 1 and strictly increase, so
\* no id is returned twice, removed or not; every entry of the registry
\* holds an id that was returned, below next_id_.
C2_IdsUniqueIncreasing ==
  /\ (issued # <<>> => issued[1] = 1)
  /\ \A k \in 1 .. Len(issued) - 1 : issued[k] < issued[k + 1]
  /\ \A k \in 1 .. Len(issued) : issued[k] < next_id_
  /\ \A i \in clients_ : \E k \in 1 .. Len(issued) : issued[k] = i

\* C2 witness: two ids were returned, and the first has been removed while
\* the second is registered.
C2_Witness ==
  /\ Len(issued) = 2
  /\ issued[1] \notin clients_
  /\ issued[2] \in clients_

\* C3: on_disconnect_ is invoked at most once for a worker: not before its
\* receive loop has ended, and once from then on, whatever ended the loop
\* and however often stop() was called.
C3_DisconnectOnce ==
  \A i \in Workers :
    /\ discCalls[i] <= 1
    /\ pc[i] \in {"none", "loop", "on_msg", "bcast", "exit"} => discCalls[i] = 0
    /\ pc[i] \in {"rm_lock", "destroy", "join", "hung", "done"} => discCalls[i] = 1

\* C3 witness: one worker's loop was ended by stop(), called twice on it,
\* another's by an oversized frame, and each has had its one callback.
C3_Witness ==
  \E i, j \in Workers :
    /\ cause[i] = "stop"
    /\ stopCalls[i] >= 2
    /\ discCalls[i] = 1
    /\ cause[j] = "too_large"
    /\ discCalls[j] = 1


\* Worker i's receive thread can never end: the process was terminated; or
\* the thread waits in join for itself; or it waits for mutex_, whose owner
\* waits in join for it.
CannotEnd(i) ==
  \/ crashed
  \/ pc[i] = "hung"
  \/ /\ pc[i] \in {"on_msg", "rm_lock"}
     /\ \E t \in Threads : t # i /\ mutex_ = {t} /\ pc[t] = "join" /\ loc[t].cur = i

\* Such a state is never left: the thread stays where it is for good.
CannotEndIsFinal ==
  [][\A i \in Workers : CannotEnd(i) => (CannotEnd(i)' /\ pc'[i] = pc[i])]_vars

\* C4: once the peer of a registered worker has closed the connection and
\* the worker's loop has ended on it, the removal of the entry can still
\* come to an end: the receive thread, which runs remove_client, is never
\* left unable to return from it and release mutex_.
C4_RemoteCloseRemoved ==
  \A i \in Workers : cause[i] = "peer_closed" => ~CannotEnd(i)

\* C5: once stop() has been called on a worker, its receive thread can
\* still end: it is never left unable to leave the loop and return from
\* on_disconnect_.
C5_StopEndsReceiveTask ==
  \A i \in Workers : stopCalls[i] > 0 => ~CannotEnd(i)

\* C6: a worker whose entry is erased and whose destructor has been entered
\* has a receive thread that has ended, or that another thread is waiting
\* for in join before the object is freed.
C6_DestroyedAfterTaskEnded ==
  \A i \in Workers :
    (i \notin clients_ /\ obj[i] \in {"dtor", "freed"}) =>
      \/ pc[i] = "done"
      \/ \E t \in Threads : t # i /\ pc[t] = "join" /\ loc[t].cur = i

\* The ways a connection fails: an oversized frame, a frame cut short by
\* the end of the stream, a reset.
ConnectionErrors == {"too_large", "truncated", "io_error"}

\* C10: when one worker's loop was ended by an error of its connection,
\* every other registered worker that is still active goes on: the process
\* is alive, and the registry is not held for ever by the failed worker's
\* thread, so that broadcasts can still reach the others.
C10_FailureIsolated ==
  \A i, j \in Workers :
    (i # j /\ cause[i] \in ConnectionErrors /\ j \in clients_ /\ is_active(j)) =>
      /\ ~crashed
      /\ ~(mutex_ = {i} /\ pc[i] = "hung")


\* Every message given to send_message so far is non-empty and no longer
\* than the cap.
AllWithinCap == \A k \in 1 .. Len(sentLog) : 0 < SLen(sentLog[k]) /\ SLen(sentLog[k]) <= MAX_MSG

\* C7: with only non-empty messages within the cap sent, however ::send and
\* ::recv split the bytes: the k-th receive_message that returns a message
\* returns the k-th message sent, whole; a call returns no message only
\* after the sending end has gone, and never fails; and once every byte
\* sent has been read from an open stream, every message sent has been
\* returned and the receiver stands at a frame boundary.
C7_FramingRoundTrip ==
  AllWithinCap =>
    /\ \A k \in 1 .. Len(rcvd) :
         IF rcvd[k].kind = "msg"
         THEN k <= Len(sentLog) /\ rcvd[k].msg = sentLog[k]
         ELSE rcvd[k].kind = "empty" /\ tx.closed
    /\ (tx.pc = "idle" /\ ~tx.closed /\ wire = <<>>) =>
         /\ rx.eaten = 0
         /\ Len(rcvd) = Len(sentLog)

\* C7 witness: two different messages, the second of 64 MiB, were sent and
\* returned in order, the last one read in more than one ::recv.
C7_Witness ==
  /\ Len(sentLog) = 2
  /\ sentLog[1] = Hi
  /\ SLen(sentLog[2]) = MAX_MSG
  /\ Len(rcvd) = 2
  /\ rcvd[1].kind = "msg" /\ rcvd[1].msg = sentLog[1]
  /\ rcvd[2].kind = "msg" /\ rcvd[2].msg = sentLog[2]
  /\ ~tx.closed

\* C8: a receive_message call that the end of the stream stopped, inside
\* the prefix or inside the body, returned the empty result: it did not
\* fail and it returned none of the bytes that had arrived.
C8_PeerClosedIsEmpty ==
  \A k \in 1 .. Len(rcvd) :
    rcvd[k].how \in {"eof_hdr", "eof_body"} =>
      /\ rcvd[k].kind = "empty"
      /\ rcvd[k].msg = <<>>

\* C8 witness: one call was stopped inside the body with part of the
\* payload read, the next inside the prefix.
C8_Witness ==
  /\ Len(rcvd) = 2
  /\ rcvd[1].how = "eof_body"
  /\ rcvd[1].eaten > HeaderSize
  /\ rcvd[1].eaten < HeaderSize + rcvd[1].len
  /\ rcvd[2].how = "eof_hdr"

\* C9: receive_message fails exactly when the prefix it decoded declares
\* more than 64 MiB, having read the 4 bytes of the prefix and no byte
\* after them; it never reads a body for such a prefix, and a call that
\* decoded exactly 64 MiB and met no end of stream returned a message of
\* that length.
C9_OversizedRejected ==
  /\ \A k \in 1 .. Len(rcvd) :
       /\ rcvd[k].kind = "throw" <=> rcvd[k].len > 64 * 1024 * 1024
       /\ rcvd[k].kind = "throw" => rcvd[k].eaten = HeaderSize
       /\ (rcvd[k].len = 64 * 1024 * 1024 /\ rcvd[k].how # "eof_body") =>
            (rcvd[k].kind = "msg" /\ SLen(rcvd[k].msg) = 64 * 1024 * 1024)
  /\ rx.pc = "body" => rx.len <= 64 * 1024 * 1024

\* C9 witness: a frame of exactly 64 MiB was returned, and the call after
\* it failed on a prefix declaring 100 MiB.
C9_Witness ==
  /\ Len(rcvd) = 2
  /\ rcvd[1].kind = "msg"
  /\ rcvd[1].len = 64 * 1024 * 1024
  /\ rcvd[2].kind = "throw"
  /\ rcvd[2].len = 100 * 1024 * 1024
  /\ rcvd[2].eaten = HeaderSize


\* The bytes call c has put on the worker's connection, in order.
WrittenBy(c) == SelectSeq(sendWire, LAMBDA e : e.call = c)

\* C11: on one worker, at most one thread is inside send_message at a time,
\* and the bytes of one send call are never split by a byte of another
\* call: what a call wrote stands on the connection as one unbroken piece,
\* a prefix of its frame, and the whole frame (prefix and payload) when the
\* call met no transport error.
C11_SendsSerialized ==
  /\ Cardinality({s \in Senders : sender[s].pc \in {"hdr", "body"}}) <= 1
  /\ \A p, q \in 1 .. Len(sendWire) :
       (p < q /\ sendWire[p].call = sendWire[q].call) =>
         \A r \in p .. q : sendWire[r].call = sendWire[p].call
  /\ \A c \in SendCalls :
       LET w == WrittenBy(c)
           frame == FrameOf(SendText(c[1]))
       IN
       /\ Len(w) <= SLen(frame)
       /\ \A k \in 1 .. Len(w) : w[k].b = SAt(frame, k)
       /\ (\E k \in 1 .. Len(sendLog) : sendLog[k] = [call |-> c, how |-> "ok"]) =>
            Len(w) = SLen(frame)

\* C11 witness: one thread is in the middle of its frame while another has
\* called send and waits for the lock.
C11_Witness ==
  \E s, t \in Senders :
    /\ s # t
    /\ sender[s].pc = "body"
    /\ sender[s].splits > 0
    /\ sender[t].pc = "lock"
    /\ Len(WrittenBy(CallOf(s))) = HeaderSize + 1


\* C12: a send that fails inside a broadcast is swallowed.  While a thread
\* is in the loop of Room::broadcast or broadcast_all, whatever sends have
\* failed: every entry of the registry has been visited or is still to be
\* visited; every visited entry that was eligible was sent to, and has the
\* payload as its latest frame unless its own send failed; the registry
\* holds the entries it held when the loop started; and a peer whose send
\* failed is still registered with its connection open, and no stop() was
\* called on it.
C12_SendFailureSwallowed ==
  \A t \in Threads :
    pc[t] = "bcast" =>
      /\ ~crashed
      /\ loc[t].todo \cup loc[t].seen = loc[t].snap
      /\ clients_ = loc[t].snap
      /\ \A j \in loc[t].seen :
           /\ (j \in loc[t].act /\ ~(loc[t].exclude /\ j = loc[t].sender)) =>
                Occurrences(loc[t].sent, j) = 1
           /\ (Occurrences(loc[t].sent, j) = 1 /\ j \notin loc[t].failed) =>
                (outbox[j] # <<>> /\ outbox[j][Len(outbox[j])] = loc[t].payload)
      /\ \A j \in loc[t].failed :
           /\ j \in clients_
           /\ socket_[j] = "open"
           /\ stopCalls[j] = 0
           /\ obj[j] = "live"

\* C12 witness: in one broadcast the send to one recipient failed and the
\* recipient visited after it got the payload.
C12_Witness ==
  \E t \in Threads :
    /\ pc[t] = "bcast"
    /\ loc[t].todo = {}
    /\ \E p, q \in 1 .. Len(loc[t].sent) :
         /\ p < q
         /\ loc[t].sent[p] \in loc[t].failed
         /\ loc[t].sent[q] \notin loc[t].failed
         /\ outbox[loc[t].sent[q]] # <<>>
         /\ outbox[loc[t].sent[q]][Len(outbox[loc[t].sent[q]])] = loc[t].payload


\* C21: in every Room::broadcast_all(label, text) call, each entry the loop
\* has visited was sent the payload once if it reported itself active, and
\* not at all otherwise, with no entry excluded; no entry not yet visited
\* was sent to; the payload is "[", the label, "]: " and the text, and is
\* the last frame written to a recipient whose send went out; the registry
\* holds the entries it held when the call started and next_id_ is what it
\* was.
C21_BroadcastAllReachesAll ==
  (pc[MainThread] = "bcast" /\ ~loc[MainThread].exclude) =>
    LET l == loc[MainThread] IN
    /\ l.payload = SCat(Bytes(<<91, 83, 93, 58, 32>>), l.msg)
    /\ clients_ = l.snap
    /\ next_id_ = l.nid
    /\ \A j \in Workers :
         LET due == j \in l.seen /\ j \in l.act IN
         /\ Occurrences(l.sent, j) = IF due THEN 1 ELSE 0
         /\ (due /\ j \notin l.failed) =>
              (outbox[j] # <<>> /\ outbox[j][Len(outbox[j])] = l.payload)

\* C21 witness: broadcast_all has visited a registry of two, one entry
\* active and sent the payload, the other no longer active and skipped.
C21_Witness ==
  LET l == loc[MainThread] IN
  /\ pc[MainThread] = "bcast"
  /\ ~l.exclude
  /\ l.todo = {}
  /\ Cardinality(l.snap) = 2
  /\ Cardinality(l.act) = 1
  /\ Len(l.sent) = 1
  /\ outbox[l.sent[1]] = << l.payload >>


\* The bytes the receive_message calls of q took from the stream.
RECURSIVE EatenBy(_)
EatenBy(q) == IF q = <<>> THEN 0 ELSE q[1].eaten + EatenBy(Tail(q))

\* C22: with messages within the cap, the empty one among them: a
\* send_message of the empty string completes, and what the empty messages
\* put on the stream is 4 bytes of 0 each and nothing else; the
\* receive_message call that meets the frame of an empty message decodes
\* length 0 and returns the empty result having taken exactly the 4 bytes
\* of the prefix, so that the calls after it return the messages sent
\* after it.
C22_EmptyFrame ==
  (\A k \in 1 .. Len(sentLog) : SLen(sentLog[k]) <= MAX_MSG) =>
    /\ \A k \in 1 .. Len(rcvd) :
         /\ rcvd[k].how = "zero" =>
              /\ rcvd[k].kind = "empty"
              /\ rcvd[k].msg = <<>>
              /\ rcvd[k].len = 0
              /\ rcvd[k].eaten = HeaderSize
              /\ k <= Len(sentLog)
              /\ sentLog[k] = <<>>
         /\ (k <= Len(sentLog) /\ sentLog[k] = <<>>
               /\ rcvd[k].how \notin {"eof_hdr", "eof_body"}) => rcvd[k].how = "zero"
         /\ rcvd[k].kind = "msg" => (k <= Len(sentLog) /\ rcvd[k].msg = sentLog[k])
    /\ (tx.pc = "idle" /\ ~tx.closed /\ \A k \in 1 .. Len(sentLog) : sentLog[k] = <<>>) =>
         /\ SLen(wire) + rx.eaten + EatenBy(rcvd) = HeaderSize * Len(sentLog)
         /\ wire = Run(0, SLen(wire))

\* C22 witness: the empty string and then "hi" were sent; the first
\* receive_message returned the empty result for the zero-length frame and
\* the second returned "hi".
C22_Witness ==
  /\ sentLog = << <<>>, Hi >>
  /\ ~tx.closed
  /\ Len(rcvd) = 2
  /\ rcvd[1].how = "zero" /\ rcvd[1].eaten = HeaderSize
  /\ rcvd[2].kind = "msg" /\ rcvd[2].msg = Hi


\* No entry has been taken out of the registry: no stop() was called and no
\* handler is being destroyed.
NoRemovals == \A i \in Workers : stopCalls[i] = 0 /\ obj[i] \in {"none", "live"}

\* C13: as long as nothing has been removed, the add_client calls made so
\* far, in whatever order they interleaved with the other threads, have
\* returned pairwise distinct ids, and client_count() is the number of
\* those calls.
C13_ConcurrentAdds ==
  NoRemovals =>
    /\ \A p, q \in 1 .. Len(issued) : p # q => issued[p] # issued[q]
    /\ client_count = Len(issued)
    /\ clients_ = {issued[k] : k \in 1 .. Len(issued)}

\* C13 witness: every add_client call of the bound has returned while a
\* receive thread holds the registry's mutex in a broadcast, and nothing
\* was removed.
C13_Witness ==
  /\ NoRemovals
  /\ Len(issued) = MaxClients
  /\ client_count = MaxClients
  /\ \E i \in Workers : mutex_ = {i} /\ pc[i] = "bcast"


\* C14: stop() called on a worker once, twice or more leaves the worker
\* not running and its connection invalid, and the close() calls it makes
\* have released the connection's handle exactly once; no handle is ever
\* released twice.
C14_StopIdempotent ==
  \A i \in Workers :
    /\ released[i] <= 1
    /\ stopCalls[i] >= 1 =>
         /\ ~running_[i]
         /\ socket_[i] = "invalid"
         /\ released[i] = 1

\* C14 witness: stop() was called twice on one worker (by remove_client and
\* again by the destructor), so close() ran twice on its connection.
C14_Witness ==
  \E i \in Workers :
    /\ stopCalls[i] = 2
    /\ released[i] = 1
    /\ socket_[i] = "invalid"
    /\ ~running_[i]


\* C15: a remove_client(id) call that finds no entry for id changes
\* nothing: the registered entries, every worker's running_ and
\* connection, the handles released, the stop() calls made, the handler
\* objects, the next id and the owner of the mutex are as before, and the
\* call returns.
C15_RemoveAbsentIsNoOp ==
  [][ \A t \in Threads :
        (RemoveClient(t) /\ loc[t].cur \notin clients_) =>
          /\ UNCHANGED << clients_, running_, socket_, released, stopCalls, obj,
                          next_id_, mutex_, name_, outbox >>
          /\ pc'[t] \in {"idle", "done"} ]_vars

\* C15 witness: a remove_client call for an id that has no entry has run
\* and returned while another id was registered, which is still registered
\* and running with its connection open.
C15_Witness ==
  \E id \in Workers :
    /\ << id, FALSE >> \in rmLog
    /\ pc[MainThread] = "idle"
    /\ \E j \in clients_ : j # id /\ running_[j] /\ socket_[j] = "open" /\ obj[j] = "live"


\* The main thread is inside stop_all() on a registry that held entries,
\* past the loop that calls stop().
InStopAll == pc[MainThread] \in {"destroy", "join"} /\ loc[MainThread].snap # {}

\* C16: stop_all() returns with the registry empty and every worker that
\* was registered stopped.  Once its loop has run, every worker that was
\* registered is not running and its connection is closed, and the call
\* is never left waiting for a receive thread that cannot end: the
\* clear() completes and the call returns.
C16_StopAllEmptiesRegistry ==
  InStopAll =>
    /\ \A j \in loc[MainThread].snap : ~running_[j] /\ socket_[j] = "invalid"
    /\ ~(pc[MainThread] = "join" /\ CannotEnd(loc[MainThread].cur))

Holders(h) == {o \in Objs : life[o] = "live" /\ sock_[o] = h}

\* C17: a live connection on which is_valid() is true has not been closed
\* and no send or receive on it has hit a transport error: its handle is
\* open and no ::send or ::recv on it has reported SOCKET_ERROR.
C17_ValidUntilClosedOrErrored ==
  \A o \in Objs :
    (life[o] = "live" /\ ObjValid(o)) =>
      /\ handle[sock_[o]].state = "open"
      /\ handle[sock_[o]].link # "hit"

\* C17 as the code has it: is_valid() of a live connection turns false only
\* when its handle is closed (close(), the destructor, or a move
\* assignment into it) or is moved to another object; a send or receive
\* that hits a transport error leaves it true.
C17_ValidUntilClosedOrMoved ==
  [][\A o \in Objs :
       (life[o] = "live" /\ ObjValid(o) /\ ~ObjValid(o)') =>
         \/ handle'[sock_[o]].state = "closed"
         \/ \E d \in Objs \ {o} : life'[d] = "live" /\ sock_'[d] = sock_[o]]_vars

\* C17 witness: a send or receive on a live connection has hit a transport
\* error, the connection has not been closed, and is_valid() is true.
C17_Witness ==
  \E o \in Objs :
    /\ life[o] = "live"
    /\ ObjValid(o)
    /\ handle[sock_[o]].state = "open"
    /\ handle[sock_[o]].link = "hit"
    /\ connLog.io = 1

\* C18: an open handle is held by exactly one live SocketWrapper and a
\* handle that is not open by none: the source of a move is left invalid,
\* the handle a move assignment overwrites is closed, and no handle is
\* closed twice.
C18_SingleOwner ==
  \A h \in Handles :
    /\ handle[h].state = "open" => Cardinality(Holders(h)) = 1
    /\ handle[h].state # "open" => Holders(h) = {}
    /\ handle[h].closes = (IF handle[h].state = "closed" THEN 1 ELSE 0)

\* C18 witness: two moves have been made; the handle the first object was
\* constructed with is open and held by the third object, the other
\* handle is closed, and the first two objects are live and invalid.
C18_Witness ==
  /\ connMoves = 2
  /\ handle[1].state = "open"
  /\ Holders(1) = {3}
  /\ handle[2].state = "closed"
  /\ handle[2].closes = 1
  /\ \A o \in {1, 2} : life[o] = "live" /\ ~ObjValid(o)

\* C19: a send_message or receive_message call made on an invalid
\* connection (the latest call, whichever it was) failed as a rejected
\* operation and made no ::send or ::recv.
C19_InvalidRejectsAll ==
  ~connLog.valid => (connLog.result = "rejected" /\ connLog.io = 0)


\* C23: at the listener, an ::accept that returned INVALID_SOCKET, for the
\* closed listening socket or for any other reason, is the last ::accept
\* of its accept thread; whenever stop() has returned the accept thread
\* had ended (or was never started), and the callback was never invoked
\* after a stop() had returned; and where a further stop() returns at once
\* there is nothing left for it to do: the accept thread has ended and been
\* joined, and the listening socket was closed once.
C23_ListenerLifecycle ==
  /\ ~srvLog.retried
  /\ srvLog.failedNow => acceptPc = "ended"
  /\ srvLog.taskAtReturn \in {"none", "ended"}
  /\ ~srvLog.cbAfterStop
  /\ listenOs.closes <= 1
  /\ srvLog.noops > 0 => srvLog.stopsReturned > 0
  /\ (ctlPc = "idle" /\ ~srv_running_ /\ listen_sock_ = "invalid") =>
       /\ accept_thread_ = "empty"
       /\ acceptPc \in {"none", "ended"}
       /\ listenOs.state = "closed"
       /\ listenOs.closes = 1

\* C23 witness: a connection was accepted and handed to the callback, stop()
\* closed the socket under the blocked ::accept and returned after the
\* thread had ended, and a second stop() returned at once.
C23_Witness ==
  /\ srvLog.callbacks = 1
  /\ srvLog.faults = 0
  /\ srvLog.failedNow
  /\ srvLog.stopsReturned = 1
  /\ srvLog.noops = 1
  /\ acceptPc = "ended"

\* C26: is_running() is true only while the accept thread is inside
\* accept_loop(): it is false before start_accept_loop() and false once
\* the thread has ended, by stop() or by a failed ::accept.
C26_IsRunningIffLooping ==
  is_running => Looping


\* The positions of the candidates that connect.
Connecting == {k \in 1 .. Len(cands) : cands[k] = "ok"}

\* The candidates before position n for which ::socket gave a socket, in
\* the order of the list.
RECURSIVE Tried(_, _)
Tried(k, n) ==
  IF k >= n THEN <<>>
  ELSE IF cands[k] = "nosock" THEN Tried(k + 1, n)
  ELSE << k >> \o Tried(k + 1, n)

\* C24: connect_to attempts the candidates in the order of the list.  When
\* it has returned, it returned the socket of the first candidate that
\* connects, holding it open, and attempted no candidate after it; it has
\* thrown exactly when getaddrinfo failed or no candidate connects; and
\* when it has returned or thrown, every socket it opened for a candidate
\* whose connect failed is closed, and the list is freed.
C24_ConnectFirstThatWorks ==
  /\ \A p, q \in 1 .. Len(cliLog.attempted) :
       p < q => cliLog.attempted[p] < cliLog.attempted[q]
  /\ cliPc = "returned" =>
       /\ Connecting # {}
       /\ \A k \in Connecting : sock <= k
       /\ sock \in Connecting
       /\ sock \notin cliLog.closed
       /\ cliLog.attempted = Tried(1, sock + 1)
  /\ cliPc = "threw_connect" =>
       /\ Connecting = {}
       /\ cliLog.attempted = Tried(1, Len(cands) + 1)
  /\ cliPc = "threw_resolve" => (cliLog.attempted = <<>> /\ cliLog.opened = {})
  /\ (cliPc \in {"free", "returned", "threw_connect"} /\ Connecting = {}) =>
       sock = INVALID_SOCKET
  /\ cliPc \in {"returned", "threw_connect"} =>
       /\ cliLog.freed
       /\ cliLog.opened \ cliLog.closed = (IF cliPc = "returned" THEN {sock} ELSE {})

\* C24 witness: of three candidates the first was refused and the second
\* connected; connect_to returned the second's socket, closed the first's
\* and never tried the third.
C24_Witness ==
  /\ cliPc = "returned"
  /\ cands = << "refused", "ok", "ok" >>
  /\ sock = 2
  /\ cliLog.attempted = << 1, 2 >>
  /\ cliLog.closed = {1}
  /\ cliLog.opened = {1, 2}


\* C25: whenever NetworkManager::stop() has returned on a started manager,
\* at that return the receive thread had run to its end, its disconnect
\* callback included, and the socket was closed.
C25_StopWaitsForReceiveThread ==
  nmLog.returned > 0 =>
    /\ nmLog.taskAtReturn = "ended"
    /\ nmLog.sockAtReturn = "invalid"


\* C27: once the handshake is over, every payload given to send_message on
\* the chat path, by the client's input loop, by the server's input loop
\* through broadcast_all or by the relay through broadcast, is non-empty
\* and was made from a non-empty line or message, so that no frame put on
\* a connection is a zero-length frame and no frame the client sent and
\* the server has still to read is empty.
C27_NoEmptyPayload ==
  /\ \A k \in 1 .. Len(chatSent) :
       /\ chatSent[k].line # <<>>
       /\ SLen(chatSent[k].payload) > 0
       /\ SLen(FrameOf(chatSent[k].payload)) > HeaderSize
  /\ \A k \in 1 .. Len(chat.up) : chat.up[k] # <<>>

\* C27 witness: the client's loop read an empty line and then "hi", sent
\* "hi" alone, and the server relayed it; the server's loop read an empty
\* line and sent nothing for it.
C27_Witness ==
  /\ chat.cliReads = 2
  /\ chat.srvReads >= 1
  /\ Len(chatSent) = 2
  /\ chatSent[1] = Sent("client", Hi, Hi)
  /\ chatSent[2].by = "relay"
  /\ chatSent[2].line = Hi


\* Worker i's receive thread is past its loop.
PastLoop(i) == pc[i] \in {"exit", "rm_lock", "destroy", "join", "hung", "done"}

\* The next frame on worker i's connection is a zero-length frame, and the
\* worker, running on a valid socket, is about to read it.
AtZeroFrame(i) ==
  /\ pc[i] = "loop"
  /\ running_[i]
  /\ is_valid(i)
  /\ SLen(inbound[i].buf) >= HeaderSize
  /\ STake(inbound[i].buf, HeaderSize) = htonl(0)

\* C28: a worker that reads a zero-length frame takes the 4 bytes of its
\* prefix and leaves its loop without invoking the message callback; from
\* then on it is past the loop for good, never invokes the message
\* callback and reads no further byte, whatever the peer sends after the
\* frame (the unread bytes change only by what the peer does); the
\* disconnect callback is invoked once the thread goes on; and unless
\* stop() was called on the worker meanwhile, its socket is still valid
\* when that happens.
C28_ZeroFrameIsDisconnect ==
  /\ [](\A i \in Workers :
          cause[i] = "zero_frame" =>
            /\ PastLoop(i)
            /\ ~running_[i] \/ pc[i] = "exit"
            /\ discCalls[i] = (IF pc[i] = "exit" THEN 0 ELSE 1)
            /\ (stopCalls[i] = 0 /\ pc[i] \in {"exit", "rm_lock"}) =>
                 socket_[i] = "open")
  /\ [][\A i \in Workers :
          /\ (AtZeroFrame(i) /\ pc'[i] # pc[i]) =>
               /\ pc'[i] = "exit"
               /\ cause'[i] = "zero_frame"
               /\ inbound'[i].buf = SDrop(inbound[i].buf, HeaderSize)
          /\ cause[i] = "zero_frame" =>
               /\ cause'[i] = "zero_frame"
               /\ pc'[i] \notin {"loop", "on_msg", "bcast"}
               /\ inbound'[i] # inbound[i] => peerWrites' = peerWrites + 1]_vars

\* C28 witness: the peer sent a zero-length frame and then the frame of
\* "hi"; the worker's loop ended on the first, the disconnect callback
\* has been invoked with the socket still valid and the peer's end open,
\* and the second frame lies unread.
C28_Witness ==
  \E i \in Workers :
    /\ cause[i] = "zero_frame"
    /\ pc[i] = "rm_lock"
    /\ discCalls[i] = 1
    /\ socket_[i] = "open"
    /\ inbound[i].fin = "open"
    /\ \E k \in 1 .. MaxPeerWrites : inbound[i].buf = FrameOf(Text(i, k))


\* C29: stop_all() called with workers registered can always still return:
\* while it destroys the handlers it is never in the wait that has no end,
\* joining the receive thread of a worker, with mutex_ held, while that
\* thread, in its disconnect callback, waits for mutex_ in remove_client.
C29_StopAllReturns ==
  \A j \in Workers :
    ~ /\ InStopAll
      /\ mutex_ = {MainThread}
      /\ pc[MainThread] = "join"
      /\ loc[MainThread].cur = j
      /\ pc[j] = "rm_lock"


\* The payloads Room::broadcast makes of the texts worker i's peer may have
\* sent, by the place of the write in the run.
RelayOf(i, k) == Payload(name_[i], Text(i, k))

\* C30: what is written to a peer keeps, for every sender, the order in
\* which the sender's peer sent: of two payloads relayed from worker i that
\* were both written to worker j, the one made of the earlier frame was
\* written first, whatever broadcasts of other workers and of the main
\* thread came between.
C30_PerSenderFifo ==
  \A i, j \in Workers :
    \A p, q \in 1 .. Len(outbox[j]) :
      \A k1, k2 \in 1 .. MaxPeerWrites :
        (i # j /\ p < q /\ outbox[j][p] = RelayOf(i, k1) /\ outbox[j][q] = RelayOf(i, k2)) =>
          k1 < k2

\* C30 witness: the peer of one worker sent two frames, and the other
\* worker's peer was written the two payloads made of them, the first
\* before the second.
C30_Witness ==
  \E i, j \in Workers :
    /\ i # j
    /\ outbox[j] = << RelayOf(i, 1), RelayOf(i, 2) >>


\* C31: for every worker the message callback comes before the disconnect
\* callback.  Once the disconnect callback of worker i has been invoked,
\* the worker's thread is never again at the invocation of the message
\* callback nor inside the broadcast it makes, and whatever is written to
\* a peer from then on is written by a broadcast of another thread.
C31_NoMessageAfterDisconnect ==
  /\ [](\A i \in Workers : discCalls[i] > 0 => pc[i] \notin {"on_msg", "bcast"})
  /\ [][\A i \in Workers :
          discCalls[i] > 0 =>
            /\ pc'[i] \notin {"on_msg", "bcast"}
            /\ outbox' # outbox => (mutex_ # {i} /\ pc[i] # "bcast")]_vars

\* C31 witness: a worker relayed its peer's first frame to the other
\* worker, its loop was then ended by a stop, its disconnect callback has
\* been invoked, and the second frame its peer sent is still unread.
C31_Witness ==
  \E i, j \in Workers :
    /\ i # j
    /\ discCalls[i] = 1
    /\ cause[i] = "stop"
    /\ outbox[j] = << RelayOf(i, 1) >>
    /\ inbound[i].buf = FrameOf(Text(i, 2))


\* C32: in the registry a send to a worker and a stop() of a worker never
\* run at the same time.  mutex_ has one owner at most; a thread inside
\* the loop of broadcast or broadcast_all, or between the stop() of
\* remove_client or stop_all and the end of the destruction that follows,
\* is that owner; every write to a peer is made by the thread that owns
\* mutex_ before and after it, inside its broadcast; and every stop() is
\* made by a thread that owns mutex_ or takes it in that step.
C32_SendNeverOverlapsStop ==
  /\ [](/\ Cardinality(mutex_) <= 1
        /\ \A t \in Threads :
             pc[t] \in {"bcast", "destroy", "join", "hung"} => mutex_ = {t})
  /\ [][/\ outbox' # outbox =>
             \E t \in Threads : mutex_ = {t} /\ mutex_' = {t} /\ pc[t] = "bcast"
        /\ stopCalls' # stopCalls =>
             \E t \in Threads :
               /\ mutex_ \cup mutex_' = {t}
               /\ pc[t] \in {"idle", "rm_lock", "destroy"}]_vars

\* C32 witness: a worker's thread is inside a broadcast and has still to
\* send to the other worker, which is active, while the main thread has
\* called remove_client for that worker and waits for mutex_.
C32_Witness ==
  \E i, j \in Workers :
    /\ i # j
    /\ pc[i] = "bcast"
    /\ mutex_ = {i}
    /\ j \in loc[i].todo
    /\ is_active(j)
    /\ is_valid(j)
    /\ pc[MainThread] = "rm_lock"
    /\ loc[MainThread].cur = j


\* C33: a reply of the handshake that fails does not stop the listener.
\* While the server has not been stopped and ::accept has not failed, the
\* accept thread is inside accept_loop(), whatever happened to the replies
\* of the connections handled so far.
C33_ReplyFailureKeepsListener ==
  (srvLog.replyFaults > 0 /\ srv_running_ /\ srvLog.faults = 0) => Looping

====
